---- MODULE Spec2Model ----
(***************************************************************************)
(* Verification model of the Online-Selling-Tracker dashboard.             *)
(*                                                                         *)
(* The repository holds four builds of the App component:                  *)
(*   App1  src/App.tsx lines 27-474                                        *)
(*   App2  src/App.tsx lines 500-1091                                      *)
(*   P1    src/unnamed/part_001                                            *)
(*   P2    src/unnamed/part_002                                            *)
(* and two builds of InventoryForm (src/components/InventoryForm.tsx and   *)
(* src/unnamed/part_000 lines 356-604).  The derived values of every build *)
(* (stats, monthlyData, ...) are operators over the same in-memory order   *)
(* list, prefixed with the build they are translated from.                 *)
(***************************************************************************)
EXTENDS Integers, Sequences, FiniteSets, TLC

VARIABLES
    orders,        \* useState<Order[]>: the in-memory order list
    isLoading,     \* App1: useState(true), cleared by loadData
    statuses,      \* useState<string[]>(INITIAL_STATUSES)
    inventory,     \* useState<InventoryItem[]>: the in-memory inventory
    invForm,       \* the InventoryForm instance, when one is open
    invCalls,      \* onAdd / onUpdate calls whose gateway save is in flight
    appBuild,      \* the App build whose order handlers run
    returnModalOrder,  \* useState<Order | null>(null)
    ordCalls,      \* order handlers suspended at an await of the gateway
    backend,       \* the rows of osot_orders owned by the session's user
    confirmed,     \* what the last confirm() dialog returned
    rf,            \* the activation of dbService.retryFetch
    gwBuild,       \* the dbService build in use
    session,       \* the user supabase.auth.getUser() yields, if any
    osot_orders,   \* the rows of the remote table osot_orders
    osot_inventory,    \* the rows of the remote table osot_inventory
    osot_profiles, \* the rows of the remote table osot_profiles
    gwLast,        \* the gateway call that completed last, and its result
    appUser,       \* App2 / P2: const [user, setUser], the signed-in user
    isSyncing,     \* useState(false): the Syncing indicator
    rfSync         \* the activation of retryFetch inside syncProfile

vars == <<orders, isLoading, statuses, inventory, invForm, invCalls,
          appBuild, returnModalOrder, ordCalls, backend, confirmed,
          rf, gwBuild, session, osot_orders, osot_inventory, osot_profiles, gwLast,
          appUser, isSyncing, rfSync>>

(***************************************************************************)
(* Bounds.                                                                 *)
(***************************************************************************)
MaxOrders == 2       \* longest order list fetched from the store
MaxInventory == 2    \* longest in-memory inventory the form is opened on
MaxInvCalls == 1     \* inventory saves in flight at once
MaxOrdCalls == 1     \* order handlers suspended at once
MaxStored == 1       \* rows of the store, and of the in-memory list, of an order session

(***************************************************************************)
(* JavaScript values of the numeric order fields.  The data layer casts    *)
(* rows without conversion (dbService.ts:184), so a field holds a number,  *)
(* null, undefined or a string.  The only string drawn is a non-numeric    *)
(* one ("abc"), so every string built by raw + concatenation is            *)
(* non-numeric as well.                                                    *)
(***************************************************************************)
Num(n) == [t |-> "num", v |-> n]
NaN == [t |-> "nan", v |-> 0]
Null == [t |-> "null", v |-> 0]
Undef == [t |-> "undef", v |-> 0]
StrAbc == [t |-> "str", v |-> 0]

\* Number(x)
Number(x) ==
    CASE x.t = "num" -> x
      [] x.t = "nan" -> NaN
      [] x.t = "null" -> Num(0)
      [] x.t = "undef" -> NaN
      [] x.t = "str" -> NaN

\* x || 0 for a number x: NaN and 0 are falsy
OrZero(x) == IF x.t = "nan" \/ (x.t = "num" /\ x.v = 0) THEN Num(0) ELSE x

\* a + b on two numbers
NumPlus(a, b) == IF a.t = "nan" \/ b.t = "nan" THEN NaN ELSE Num(a.v + b.v)

\* a - b: both operands converted with ToNumber
NumMinus(a, b) ==
    LET x == Number(a)
        y == Number(b)
    IN IF x.t = "nan" \/ y.t = "nan" THEN NaN ELSE Num(x.v - y.v)

\* a + b on arbitrary values: string concatenation when either is a string
JSPlus(a, b) ==
    IF a.t = "str" \/ b.t = "str" THEN StrAbc
    ELSE NumPlus(Number(a), Number(b))

\* a > 0
GtZero(a) == Number(a).t = "num" /\ Number(a).v > 0

(***************************************************************************)
(* (a / b) * 100.  A finite quotient is kept as the fraction n / d.        *)
(***************************************************************************)
MZero == [t |-> "frac", n |-> 0, d |-> 1]
MNaN == [t |-> "nan", n |-> 0, d |-> 1]
MInf == [t |-> "inf", n |-> 0, d |-> 1]

PercentOf(a, b) ==
    LET x == Number(a)
        y == Number(b)
    IN IF x.t = "nan" \/ y.t = "nan" THEN MNaN
       ELSE IF y.v = 0 THEN (IF x.v = 0 THEN MNaN ELSE MInf)
       ELSE IF x.v = 0 THEN MZero
       ELSE [t |-> "frac", n |-> x.v * 100, d |-> y.v]

(***************************************************************************)
(* Strings that the code slices or compares are sequences of characters.   *)
(***************************************************************************)
Chars == <<" ", "-", "0", "1", "2", "3", "4", "5", "6", "7", "8", "9", "A", "B", "a", "b">>

CharRank(c) == CHOOSE i \in 1..Len(Chars) : Chars[i] = c

\* s.substring(0, n)
Substring0(s, n) == SubSeq(s, 1, IF n < Len(s) THEN n ELSE Len(s))

\* a.localeCompare(b) < 0, = 0, > 0 as -1, 0, 1
RECURSIVE localeCompare(_, _)
localeCompare(a, b) ==
    IF a = <<>> /\ b = <<>> THEN 0
    ELSE IF a = <<>> THEN -1
    ELSE IF b = <<>> THEN 1
    ELSE IF CharRank(Head(a)) < CharRank(Head(b)) THEN -1
    ELSE IF CharRank(Head(a)) > CharRank(Head(b)) THEN 1
    ELSE localeCompare(Tail(a), Tail(b))

Date_2024_01_15 == <<"2", "0", "2", "4", "-", "0", "1", "-", "1", "5">>
Date_2024_02_03 == <<"2", "0", "2", "4", "-", "0", "2", "-", "0", "3">>

(***************************************************************************)
(* Array helpers.                                                          *)
(***************************************************************************)
\* arr.filter(p)
Filter(s, P(_)) ==
    LET RECURSIVE F(_)
        F(t) == IF t = <<>> THEN <<>>
                ELSE IF P(Head(t)) THEN <<Head(t)>> \o F(Tail(t))
                ELSE F(Tail(t))
    IN F(s)

\* arr.reduce(f, init)
Reduce(s, f(_, _), init) ==
    LET RECURSIVE R(_, _)
        R(t, acc) == IF t = <<>> THEN acc ELSE R(Tail(t), f(acc, Head(t)))
    IN R(s, init)

\* arr.map(f)
Map(s, f(_)) == [i \in 1..Len(s) |-> f(s[i])]

\* arr.some(p)
Some(s, P(_)) == \E i \in 1..Len(s) : P(s[i])

\* arr.sort(cmp): Array.prototype.sort is stable, so the result is the one
\* stable ordering of arr by cmp; computed by insertion, each element going
\* after every element that does not compare greater than it
Sort(s, cmp(_, _)) ==
    LET RECURSIVE Ins(_, _)
        Ins(t, x) == IF t = <<>> THEN <<x>>
                     ELSE IF cmp(Head(t), x) > 0 THEN <<x>> \o t
                     ELSE <<Head(t)>> \o Ins(Tail(t), x)
        RECURSIVE S(_)
        S(t) == IF t = <<>> THEN <<>>
                ELSE Ins(S(SubSeq(t, 1, Len(t) - 1)), t[Len(t)])
    IN S(s)

(***************************************************************************)
(* Orders (src/types.ts:40-54 plus the bankSettled field part_002 reads).  *)
(* An absent, null or '' returnType / claimStatus is "": the code only     *)
(* tests these fields for truthiness and for equality with a label.        *)
(* An id is the row's primary key; only equality of ids is used.           *)
(***************************************************************************)
Order(st, sa, pr, rt, cs, loss, bank, d, cat) ==
    [id |-> 0, date |-> d, category |-> cat, settledAmount |-> sa,
     profit |-> pr, status |-> st, returnType |-> rt, lossAmount |-> loss,
     claimStatus |-> cs, bankSettled |-> bank]

\* returnModalOrder = null
NoOrder == Order("", Null, Null, "", "", Undef, FALSE, <<>>, "")

Dates == {Date_2024_01_15, Date_2024_02_03}

\* constants.tsx CATEGORIES
CATEGORIES == <<"Electronics", "Furniture", "Home & Kitchen", "Fashion", "Sports", "Other">>

\* constants.tsx INITIAL_STATUSES
INITIAL_STATUSES == <<"Pending", "Processing", "Shipped", "Completed", "Cancelled", "Returned">>

\* (settledAmount, profit) of the rows the store returns
AmountPairs == {<<Num(180), Num(60)>>, <<Num(0), Num(20)>>,
                <<StrAbc, Undef>>, <<Null, StrAbc>>}

SettledRows ==
    {Order("Settled", a[1], a[2], "", "", Undef, FALSE, d, cat) :
        a \in AmountPairs, d \in Dates, cat \in {"Electronics", "Fashion"}}

PendingRows ==
    {Order("Pending", Num(200), Num(80), "", "", Undef, FALSE, d, "Electronics") : d \in Dates}
    \cup {Order("Pending", Num(200), Num(80), "Customer", "Pending", Num(50), TRUE,
                Date_2024_01_15, "Electronics")}

ReturnedRows ==
    {Order("Returned", Num(200), Num(80), rt, cs, loss, bank, Date_2024_02_03, "Fashion") :
        rt \in {"", "Courier", "Customer"}, cs \in {"Pending", "Approved"},
        loss \in {Undef, Num(50)}, bank \in BOOLEAN}

\* the rows getOrders() can return
OrderRows == SettledRows \cup PendingRows \cup ReturnedRows

\* the values the operator picks in the Returns tab
ReturnTypeOptions == {"", "Courier", "Customer"}
ClaimStatusOptions == {"Pending", "Approved"}
LossInputs == {0, 50}

(***************************************************************************)
(* App1: src/App.tsx lines 27-474.                                         *)
(***************************************************************************)
App1_stats(os) ==
    LET settledOrders == Filter(os, LAMBDA o : o.status = "Settled")
        revenue == Reduce(settledOrders,
                          LAMBDA sum, o : NumPlus(sum, OrZero(Number(o.settledAmount))), Num(0))
        totalSettledProfit == Reduce(settledOrders,
                          LAMBDA sum, o : NumPlus(sum, OrZero(Number(o.profit))), Num(0))
        activeReturnLosses ==
            Reduce(Filter(os, LAMBDA o : o.status = "Returned"),
                   LAMBDA sum, o :
                       IF o.returnType = "Customer" /\ o.claimStatus # "Approved"
                       THEN NumPlus(sum, OrZero(Number(o.lossAmount)))
                       ELSE sum,
                   Num(0))
        netProfit == NumMinus(totalSettledProfit, activeReturnLosses)
    IN [totalRevenue |-> revenue,
        totalProfit |-> netProfit,
        avgMargin |-> IF GtZero(revenue) THEN PercentOf(netProfit, revenue) ELSE MZero,
        orderCount |-> Len(os)]

\* map[month] exists
HasBucket(map, month) == \E i \in 1..Len(map) : map[i].month = month

\* the object map as the sequence of its values in insertion order
App1_monthlyData(os) ==
    LET step(map, o) ==
            LET month == Substring0(o.date, 7)
                map1 == IF ~HasBucket(map, month)
                        THEN Append(map, [month |-> month, revenue |-> Num(0), profit |-> Num(0)])
                        ELSE map
            IN [i \in 1..Len(map1) |->
                   IF map1[i].month # month THEN map1[i]
                   ELSE IF o.status = "Settled"
                   THEN [map1[i] EXCEPT
                            !.revenue = NumPlus(@, Number(o.settledAmount)),
                            !.profit = NumPlus(@, Number(o.profit))]
                   ELSE IF o.status = "Returned" /\ o.claimStatus # "Approved"
                   THEN [map1[i] EXCEPT !.profit = NumMinus(@, Number(o.lossAmount))]
                   ELSE map1[i]]
    IN Sort(Reduce(os, step, <<>>), LAMBDA a, b : localeCompare(a.month, b.month))

App1_catProfit(os, cat) ==
    LET catOrders == Filter(os, LAMBDA o : o.category = cat)
    IN Reduce(catOrders,
              LAMBDA sum, o :
                  IF o.status = "Settled" THEN NumPlus(sum, Number(o.profit))
                  ELSE IF o.status = "Returned" /\ o.claimStatus # "Approved"
                  THEN NumMinus(sum, Number(o.lossAmount))
                  ELSE sum,
              Num(0))

(***************************************************************************)
(* App2: src/App.tsx lines 500-1091.                                       *)
(***************************************************************************)
App2_stats(os) ==
    LET settledOrders == Filter(os, LAMBDA o : o.status = "Settled")
        revenue == Reduce(settledOrders,
                          LAMBDA sum, o : NumPlus(sum, OrZero(Number(o.settledAmount))), Num(0))
        totalSettledProfit == Reduce(settledOrders,
                          LAMBDA sum, o : NumPlus(sum, OrZero(Number(o.profit))), Num(0))
        activeReturnLosses ==
            Reduce(Filter(os, LAMBDA o : o.status = "Returned" /\ o.claimStatus # "Approved"),
                   LAMBDA sum, o : NumPlus(sum, OrZero(Number(o.lossAmount))), Num(0))
        netProfit == NumMinus(totalSettledProfit, activeReturnLosses)
    IN [totalRevenue |-> revenue,
        totalProfit |-> netProfit,
        avgMargin |-> IF GtZero(revenue) THEN PercentOf(netProfit, revenue) ELSE MZero,
        orderCount |-> Len(os)]

App2_sortedStatusSummary(os, sts) ==
    LET summary == Map(sts, LAMBDA s :
                        [name |-> s, count |-> Len(Filter(os, LAMBDA o : o.status = s))])
    IN Sort(summary, LAMBDA a, b : b.count - a.count)

(***************************************************************************)
(* P1: src/unnamed/part_001.  Its Order has no return fields.              *)
(***************************************************************************)
P1_stats(os) ==
    LET revenue == Reduce(os, LAMBDA sum, o : JSPlus(sum, o.settledAmount), Num(0))
        profit == Reduce(os, LAMBDA sum, o : JSPlus(sum, o.profit), Num(0))
        count == Len(os)
        margin == IF count > 0 THEN PercentOf(profit, revenue) ELSE MZero
    IN [totalRevenue |-> revenue, totalProfit |-> profit,
        avgMargin |-> margin, orderCount |-> count]

\* the topProduct column (lines 106-112) is left out: it reads productName only
P1_monthlyReports(os) ==
    LET step(reportsMap, o) ==
            LET monthYear == Substring0(o.date, 7)
                map1 == IF ~HasBucket(reportsMap, monthYear)
                        THEN Append(reportsMap, [month |-> monthYear, sales |-> Num(0),
                                                 profit |-> Num(0), orderCount |-> 0])
                        ELSE reportsMap
            IN [i \in 1..Len(map1) |->
                   IF map1[i].month # monthYear THEN map1[i]
                   ELSE [map1[i] EXCEPT
                            !.sales = JSPlus(@, o.settledAmount),
                            !.profit = JSPlus(@, o.profit),
                            !.orderCount = @ + 1]]
    IN Sort(Reduce(os, step, <<>>), LAMBDA a, b : localeCompare(b.month, a.month))

(***************************************************************************)
(* P2: src/unnamed/part_002.                                               *)
(***************************************************************************)
P2_stats(os) ==
    LET settled == Filter(os, LAMBDA o : o.status = "Settled")
        baseRev == Reduce(settled,
                          LAMBDA s, o : NumPlus(s, OrZero(Number(o.settledAmount))), Num(0))
        baseProf == Reduce(settled,
                           LAMBDA s, o : NumPlus(s, OrZero(Number(o.profit))), Num(0))
        customerLoss ==
            Reduce(Filter(os, LAMBDA o : o.status = "Returned" /\ o.bankSettled),
                   LAMBDA s, o : NumPlus(s, OrZero(Number(o.lossAmount))), Num(0))
    IN [rev |-> NumMinus(baseRev, customerLoss),
        prof |-> NumMinus(baseProf, customerLoss),
        customerLoss |-> customerLoss,
        count |-> Len(os)]

P2_monthlyData(os) ==
    LET step(map, o) ==
            LET m == Substring0(o.date, 7)
                map1 == IF ~HasBucket(map, m)
                        THEN Append(map, [month |-> m, revenue |-> Num(0), profit |-> Num(0)])
                        ELSE map
                loss == OrZero(Number(o.lossAmount))
                settle(b) == IF o.status = "Settled"
                             THEN [b EXCEPT !.revenue = NumPlus(@, Number(o.settledAmount)),
                                            !.profit = NumPlus(@, Number(o.profit))]
                             ELSE b
                lose(b) == IF o.status = "Returned" /\ o.bankSettled
                           THEN [b EXCEPT !.profit = NumMinus(@, loss),
                                          !.revenue = NumMinus(@, loss)]
                           ELSE b
            IN [i \in 1..Len(map1) |->
                   IF map1[i].month # m THEN map1[i] ELSE lose(settle(map1[i]))]
    IN Sort(Reduce(os, step, <<>>), LAMBDA a, b : localeCompare(a.month, b.month))

\* counts as the sequence of its entries in insertion order
P2_orderStatusSummary(os) ==
    LET step(counts, o) ==
            IF \E i \in 1..Len(counts) : counts[i].status = o.status
            THEN [i \in 1..Len(counts) |->
                     IF counts[i].status = o.status
                     THEN [counts[i] EXCEPT !.count = @ + 1] ELSE counts[i]]
            ELSE Append(counts, [status |-> o.status, count |-> 1])
    IN Sort(Reduce(os, step, <<>>), LAMBDA a, b : b.count - a.count)

(***************************************************************************)
(* Inventory items and the InventoryForm.  Of an item only id and sku are  *)
(* kept; a sku is a sequence of characters.                                *)
(***************************************************************************)
Item(id, sku) == [id |-> id, sku |-> sku]

\* initialData = null
NoItem == Item(0, <<>>)

\* s.trim()
RECURSIVE TrimStart(_)
TrimStart(s) == IF s # <<>> /\ Head(s) = " " THEN TrimStart(Tail(s)) ELSE s

RECURSIVE TrimEnd(_)
TrimEnd(s) == IF s # <<>> /\ s[Len(s)] = " " THEN TrimEnd(SubSeq(s, 1, Len(s) - 1)) ELSE s

trim(s) == TrimEnd(TrimStart(s))

\* s.toLowerCase()
toLowerCase(s) ==
    [i \in 1..Len(s) |-> CASE s[i] = "A" -> "a" [] s[i] = "B" -> "b" [] OTHER -> s[i]]

\* the text typed into the SKU field
SkuInputs == {<<"a">>, <<"A">>, <<" ", "a">>, <<"b">>}

\* the values of `INV-${Math.floor(Math.random() * 10000)}`
ItemIds == {1, 2}

\* the two builds of InventoryForm and the App build that hosts each
FormBuilds == {"components", "part_000"}

ClosedForm(b) == [build |-> b, open |-> FALSE, initialData |-> NoItem, sku |-> <<>>, error |-> FALSE]

(***************************************************************************)
(* State and operations of the order list.                                 *)
(***************************************************************************)
\* retryFetch before it is called
NoError == [message |-> "", status |-> 0]

IdleRetry == [pc |-> "idle", retries |-> 0, delay |-> 0, retries0 |-> 0, delay0 |-> 0,
              invoked |-> 0, waited |-> <<>>, errors |-> <<>>, error |-> NoError]

\* no gateway call has been made: nobody is signed in, the tables are empty
NoCall == [op |-> "none"]

InitGwIdle ==
    /\ rf = IdleRetry
    /\ rfSync = IdleRetry
    /\ gwBuild = "dbService1"
    /\ session = "none"
    /\ osot_orders = {}
    /\ osot_inventory = {}
    /\ osot_profiles = {}
    /\ gwLast = NoCall

\* the state of the gateway, which the operations of the App leave alone
UnchangedGw ==
    UNCHANGED <<rf, rfSync, gwBuild, session, osot_orders, osot_inventory, osot_profiles, gwLast>>

\* no order handler has run: the modal is closed, nothing is in flight
InitOrdIdle ==
    /\ appBuild = "App1"
    /\ appUser = "A"
    /\ isSyncing = FALSE
    /\ returnModalOrder = NoOrder
    /\ ordCalls = <<>>
    /\ backend = <<>>
    /\ confirmed = "none"
    /\ InitGwIdle

Init ==
    /\ orders = <<>>
    /\ isLoading = TRUE
    /\ statuses = INITIAL_STATUSES
    /\ inventory = <<>>
    /\ invForm = ClosedForm("part_000")
    /\ invCalls = <<>>
    /\ InitOrdIdle

\* the state of the order handlers, which the operations below leave alone
UnchangedOrd ==
    /\ UNCHANGED <<appBuild, returnModalOrder, ordCalls, backend, confirmed, appUser, isSyncing>>
    /\ UnchangedGw

UnchangedInv == UNCHANGED <<inventory, invForm, invCalls>> /\ UnchangedOrd

\* loadData, resolved: the rows fetched carry pairwise distinct primary keys
LoadData ==
    /\ isLoading
    /\ \E n \in 0..MaxOrders : \E rows \in [1..n -> OrderRows] :
           \* getOrders: .order('date', { ascending: false })
           /\ \A i \in 1..n : \A j \in 1..n :
                  i < j => localeCompare(rows[i].date, rows[j].date) >= 0
           /\ orders' = [i \in 1..n |-> [rows[i] EXCEPT !.id = i]]
    /\ isLoading' = FALSE
    /\ UNCHANGED statuses
    /\ UnchangedInv

\* loadData, rejected: the catch branch leaves the lists alone
LoadDataFail ==
    /\ isLoading
    /\ isLoading' = FALSE
    /\ UNCHANGED <<orders, statuses>>
    /\ UnchangedInv

\* the rows of the Returns tab
filteredReturnedOrders(os) == Filter(os, LAMBDA o : o.status = "Returned")

\* setOrders(prev => prev.map(item => item.id === id ? f(item) : item))
MapById(os, id, f(_)) == [i \in 1..Len(os) |-> IF os[i].id = id THEN f(os[i]) ELSE os[i]]

\* P2 Returns tab, returnType select; the updateOrder call it then awaits
\* changes the store only, which this specification does not hold
returnTypeOnChange ==
    /\ ~isLoading
    /\ \E k \in 1..Len(filteredReturnedOrders(orders)) : \E val \in ReturnTypeOptions :
           LET o == filteredReturnedOrders(orders)[k]
           IN orders' = MapById(orders, o.id, LAMBDA item : [item EXCEPT !.returnType = val])
    /\ UNCHANGED <<isLoading, statuses>>
    /\ UnchangedInv

\* P2 Returns tab, lossAmount input
lossAmountOnChange ==
    /\ ~isLoading
    /\ \E k \in 1..Len(filteredReturnedOrders(orders)) : \E val \in LossInputs :
           LET o == filteredReturnedOrders(orders)[k]
           IN orders' = MapById(orders, o.id, LAMBDA item : [item EXCEPT !.lossAmount = Num(val)])
    /\ UNCHANGED <<isLoading, statuses>>
    /\ UnchangedInv

\* P2 Returns tab, bankSettled checkbox
bankSettledOnChange ==
    /\ ~isLoading
    /\ \E k \in 1..Len(filteredReturnedOrders(orders)) : \E val \in BOOLEAN :
           LET o == filteredReturnedOrders(orders)[k]
           IN orders' = MapById(orders, o.id, LAMBDA item : [item EXCEPT !.bankSettled = val])
    /\ UNCHANGED <<isLoading, statuses>>
    /\ UnchangedInv

\* P2 Returns tab, claimStatus select
claimStatusOnChange ==
    /\ ~isLoading
    /\ \E k \in 1..Len(filteredReturnedOrders(orders)) : \E val \in ClaimStatusOptions :
           LET o == filteredReturnedOrders(orders)[k]
           IN orders' = MapById(orders, o.id, LAMBDA item : [item EXCEPT !.claimStatus = val])
    /\ UNCHANGED <<isLoading, statuses>>
    /\ UnchangedInv

Next ==
    \/ LoadData
    \/ LoadDataFail
    \/ returnTypeOnChange
    \/ lossAmountOnChange
    \/ bankSettledOnChange
    \/ claimStatusOnChange

Spec == Init /\ [][Next]_vars

(***************************************************************************)
(* State and operations of the inventory.                                  *)
(***************************************************************************)
InitInv ==
    /\ orders = <<>>
    /\ isLoading = TRUE
    /\ statuses = INITIAL_STATUSES
    /\ inventory = <<>>
    /\ invForm \in {ClosedForm(b) : b \in FormBuilds}
    /\ invCalls = <<>>
    /\ InitOrdIdle

UnchangedOrders == UNCHANGED <<orders, statuses>> /\ UnchangedOrd

\* loadData, resolved, on an account whose store holds no rows yet
LoadEmptyStore ==
    /\ isLoading
    /\ isLoading' = FALSE
    /\ orders' = <<>>
    /\ inventory' = <<>>
    /\ UNCHANGED <<statuses, invForm, invCalls>>
    /\ UnchangedOrd

\* the Add Product button
openAddForm ==
    /\ ~isLoading /\ ~invForm.open
    /\ invForm' = [ClosedForm(invForm.build) EXCEPT !.open = TRUE]
    /\ UNCHANGED <<isLoading, inventory, invCalls>>
    /\ UnchangedOrders

\* the edit button of an inventory row (App1, App2); the form's effect
\* copies initialData into formData
openEditForm ==
    /\ ~isLoading /\ ~invForm.open /\ invForm.build = "part_000"
    /\ \E i \in 1..Len(inventory) :
           invForm' = [ClosedForm(invForm.build) EXCEPT
                          !.open = TRUE, !.initialData = inventory[i], !.sku = inventory[i].sku]
    /\ UNCHANGED <<isLoading, inventory, invCalls>>
    /\ UnchangedOrders

\* onChange of the SKU input; part_000 also clears its error
skuOnChange ==
    /\ invForm.open
    /\ \E s \in SkuInputs : invForm' = [invForm EXCEPT !.sku = s, !.error = FALSE]
    /\ UNCHANGED <<isLoading, inventory, invCalls>>
    /\ UnchangedOrders

\* onClose
closeForm ==
    /\ invForm.open
    /\ invForm' = [invForm EXCEPT !.open = FALSE]
    /\ UNCHANGED <<isLoading, inventory, invCalls>>
    /\ UnchangedOrders

\* the call an onAdd / onUpdate handler leaves in flight; snapshot is the
\* inventory the handler closed over
InvCall(kind, item) == [kind |-> kind, item |-> item, snapshot |-> inventory]

\* handleSubmit of src/components/InventoryForm.tsx, with P1's
\* addInventoryItem up to its await
components_handleSubmit ==
    /\ invForm.open /\ invForm.build = "components"
    /\ invForm.sku # <<>>
    /\ Len(invCalls) < MaxInvCalls
    /\ Len(inventory) + Len(invCalls) < MaxInventory
    /\ \E id \in ItemIds :
           LET newItem == Item(id, invForm.sku)
           IN invCalls' = Append(invCalls, InvCall("add", newItem))
    /\ invForm' = [invForm EXCEPT !.open = FALSE]
    /\ UNCHANGED <<isLoading, inventory>>
    /\ UnchangedOrders

isDuplicate(inv, form) ==
    Some(inv, LAMBDA item :
        /\ toLowerCase(trim(item.sku)) = toLowerCase(trim(form.sku))
        /\ (form.initialData = NoItem \/ item.id # form.initialData.id))

\* handleSubmit of src/unnamed/part_000, with App1's addInvItem /
\* updateInvItem up to their await
part000_handleSubmit ==
    /\ invForm.open /\ invForm.build = "part_000"
    /\ invForm.sku # <<>>
    /\ Len(invCalls) < MaxInvCalls
    /\ IF isDuplicate(inventory, invForm)
       THEN /\ invForm' = [invForm EXCEPT !.error = TRUE]
            /\ UNCHANGED invCalls
       ELSE /\ IF invForm.initialData # NoItem
               THEN invCalls' = Append(invCalls,
                        InvCall("update", Item(invForm.initialData.id, trim(invForm.sku))))
               ELSE /\ Len(inventory) + Len(invCalls) < MaxInventory
                    /\ \E id \in ItemIds :
                           invCalls' = Append(invCalls, InvCall("add", Item(id, trim(invForm.sku))))
            /\ invForm' = [invForm EXCEPT !.open = FALSE, !.error = FALSE]
    /\ UNCHANGED <<isLoading, inventory>>
    /\ UnchangedOrders

RemoveAt(s, k) == SubSeq(s, 1, k - 1) \o SubSeq(s, k + 1, Len(s))

\* the gateway save resolves and the handler runs on past its await:
\* P1 addInventoryItem sets [item, ...inventory] from its closure,
\* App1 addInvItem / updateInvItem use the functional update
saveInventoryResolved ==
    /\ \E k \in 1..Len(invCalls) :
           LET c == invCalls[k]
           IN /\ inventory' =
                    IF c.kind = "add"
                    THEN IF invForm.build = "components"
                         THEN <<c.item>> \o c.snapshot
                         ELSE <<c.item>> \o inventory
                    ELSE [i \in 1..Len(inventory) |->
                             IF inventory[i].id = c.item.id THEN c.item ELSE inventory[i]]
              /\ invCalls' = RemoveAt(invCalls, k)
    /\ UNCHANGED <<isLoading, invForm>>
    /\ UnchangedOrders

\* the gateway save rejects: only the finally block runs
saveInventoryRejected ==
    /\ \E k \in 1..Len(invCalls) : invCalls' = RemoveAt(invCalls, k)
    /\ UNCHANGED <<isLoading, inventory, invForm>>
    /\ UnchangedOrders

NextInv ==
    \/ LoadEmptyStore
    \/ openAddForm
    \/ openEditForm
    \/ skuOnChange
    \/ closeForm
    \/ components_handleSubmit
    \/ part000_handleSubmit
    \/ saveInventoryResolved
    \/ saveInventoryRejected

SpecInv == InitInv /\ [][NextInv]_vars

(***************************************************************************)
(* The order handlers and the gateway calls they await.  appBuild selects  *)
(* the App build; the handlers of App2 (src/App.tsx:666-686) are those of  *)
(* App1 word for word.  backend is what osot_orders holds for the user of  *)
(* the session; its primary key is id.                                     *)
(***************************************************************************)
AppBuilds == {"App1", "P1", "P2"}

\* the rows the store holds when the session starts
StoredRows ==
    {Order("Pending", Num(200), Num(80), "", "", Undef, FALSE, Date_2024_01_15, "Electronics"),
     Order("Returned", Num(200), Num(80), "Customer", "Pending", Num(50), FALSE,
           Date_2024_02_03, "Fashion")}

StoredOrderLists ==
    UNION {{[i \in 1..n |-> [rows[i] EXCEPT !.id = i]] : rows \in [1..n -> StoredRows]} :
              n \in 0..MaxStored}

\* the order the OrderForm hands to onAdd: its id is random or typed
NewOrderIds == {1, 9}
NewOrders ==
    {[Order("Pending", Num(120), Num(40), "", "", Undef, FALSE, Date_2024_02_03, "Fashion")
         EXCEPT !.id = id] : id \in NewOrderIds}

\* the option picked in a status select
StatusInputs == {"Shipped", "Returned", "Settled"}

\* what window.prompt returns: null, a non-numeric text, a number
PromptInputs == {"null", "abc", "150", "0"}

\* the claim buttons of the return modal
ModalClaimOptions == {"Pending", "Approved", "Rejected"}

\* a handler suspended at an await: the gateway call, the order it carries,
\* the handler to resume, the orders of the render the handler closed over
\* (also the list as it was before the handler touched it), and whether a
\* confirm() dialog was accepted before the call
OrdCall(kind, order, handler, asked) ==
    [kind |-> kind, order |-> order, handler |-> handler, snapshot |-> orders, asked |-> asked]

\* getOrders(): .eq('user_id', user.id).order('date', { ascending: false })
getOrders(rows) == Sort(rows, LAMBDA a, b : localeCompare(b.date, a.date))

\* orders.find(o => o.id === orderId), on a list that holds the id
Find(os, id) == os[CHOOSE i \in 1..Len(os) : os[i].id = id /\ \A j \in 1..(i - 1) : os[j].id # id]

HasId(os, id) == \E i \in 1..Len(os) : os[i].id = id

InitOrd ==
    /\ orders = <<>>
    /\ isLoading = TRUE
    /\ statuses = INITIAL_STATUSES
    /\ inventory = <<>>
    /\ invForm = ClosedForm("part_000")
    /\ invCalls = <<>>
    /\ appBuild \in AppBuilds
    /\ appUser = "A"
    /\ isSyncing = FALSE
    /\ returnModalOrder = NoOrder
    /\ backend \in StoredOrderLists
    /\ ordCalls = <<[kind |-> "get", order |-> NoOrder, handler |-> "mount",
                     snapshot |-> <<>>, asked |-> FALSE]>>
    /\ confirmed = "none"
    /\ InitGwIdle

UnchangedRest ==
    /\ UNCHANGED <<statuses, inventory, invForm, invCalls, appBuild, appUser>>
    /\ UnchangedGw

CanCall == ~isLoading /\ Len(ordCalls) < MaxOrdCalls

\* the modal seeded by a change of status to 'Returned'
ReturnSeed(o) ==
    [o EXCEPT !.status = "Returned",
              !.returnType = IF o.returnType # "" THEN o.returnType ELSE "Courier",
              !.claimStatus = IF o.claimStatus # "" THEN o.claimStatus ELSE "Pending"]

\* App1 / App2 updateOrderStatus, up to its await
App1_updateOrderStatus ==
    /\ appBuild = "App1" /\ ~isLoading /\ returnModalOrder = NoOrder
    /\ \E i \in 1..Len(orders) : \E newStatus \in StatusInputs :
           LET orderToUpdate == Find(orders, orders[i].id)
           IN /\ \E k \in 1..Len(statuses) : statuses[k] = newStatus
              /\ IF newStatus = "Returned"
                 THEN /\ returnModalOrder' = ReturnSeed(orderToUpdate)
                      /\ UNCHANGED <<ordCalls, isSyncing>>
                 ELSE /\ Len(ordCalls) < MaxOrdCalls
                      /\ isSyncing' = TRUE
                      /\ ordCalls' = Append(ordCalls,
                             OrdCall("update", [orderToUpdate EXCEPT !.status = newStatus],
                                     "status", FALSE))
                      /\ UNCHANGED returnModalOrder
    /\ UNCHANGED <<orders, isLoading, backend, confirmed>>
    /\ UnchangedRest

\* the Edit Return Detail button of a Returned order
App1_editReturnDetail ==
    /\ appBuild = "App1" /\ ~isLoading /\ returnModalOrder = NoOrder
    /\ \E i \in 1..Len(orders) :
           /\ orders[i].status = "Returned"
           /\ returnModalOrder' = orders[i]
    /\ UNCHANGED <<orders, isLoading, ordCalls, backend, confirmed>>
    /\ UNCHANGED isSyncing
    /\ UnchangedRest

\* the Courier button of the return modal
App1_modalCourier ==
    /\ appBuild = "App1" /\ returnModalOrder # NoOrder
    /\ returnModalOrder' = [returnModalOrder EXCEPT
           !.returnType = "Courier", !.lossAmount = Num(0), !.claimStatus = "None"]
    /\ UNCHANGED <<orders, isLoading, ordCalls, backend, confirmed>>
    /\ UNCHANGED isSyncing
    /\ UnchangedRest

\* the Customer button of the return modal
App1_modalCustomer ==
    /\ appBuild = "App1" /\ returnModalOrder # NoOrder
    /\ returnModalOrder' = [returnModalOrder EXCEPT
           !.returnType = "Customer", !.claimStatus = "Pending"]
    /\ UNCHANGED <<orders, isLoading, ordCalls, backend, confirmed>>
    /\ UNCHANGED isSyncing
    /\ UnchangedRest

\* the loss input and the claim buttons, shown for a Customer return
App1_modalEdit ==
    /\ appBuild = "App1" /\ returnModalOrder # NoOrder
    /\ returnModalOrder.returnType = "Customer"
    /\ \/ \E val \in LossInputs :
              returnModalOrder' = [returnModalOrder EXCEPT !.lossAmount = Num(val)]
       \/ \E status \in ModalClaimOptions :
              returnModalOrder' = [returnModalOrder EXCEPT !.claimStatus = status]
    /\ UNCHANGED <<orders, isLoading, ordCalls, backend, confirmed>>
    /\ UNCHANGED isSyncing
    /\ UnchangedRest

\* Discard and the close button
App1_modalDiscard ==
    /\ appBuild = "App1" /\ returnModalOrder # NoOrder
    /\ returnModalOrder' = NoOrder
    /\ UNCHANGED <<orders, isLoading, ordCalls, backend, confirmed>>
    /\ UNCHANGED isSyncing
    /\ UnchangedRest

\* handleReturnDetailSubmit(returnModalOrder), up to its await
App1_handleReturnDetailSubmit ==
    /\ appBuild = "App1" /\ returnModalOrder # NoOrder
    /\ Len(ordCalls) < MaxOrdCalls
    /\ ordCalls' = Append(ordCalls, OrdCall("update", returnModalOrder, "returnSubmit", FALSE))
    /\ isSyncing' = TRUE
    /\ UNCHANGED <<orders, isLoading, returnModalOrder, backend, confirmed>>
    /\ UnchangedRest

\* App1 / App2 deleteOrder, up to its await: confirm() is accepted or declined
App1_deleteOrder ==
    /\ appBuild = "App1" /\ ~isLoading /\ returnModalOrder = NoOrder
    /\ \E i \in 1..Len(orders) :
           \/ /\ confirmed' = "declined"
              /\ UNCHANGED <<ordCalls, isSyncing>>
           \/ /\ Len(ordCalls) < MaxOrdCalls
              /\ confirmed' = "accepted"
              /\ isSyncing' = TRUE
              /\ ordCalls' = Append(ordCalls, OrdCall("delete", orders[i], "delete", TRUE))
    /\ UNCHANGED <<orders, isLoading, returnModalOrder, backend>>
    /\ UnchangedRest

\* P1 deleteOrder, up to its await
P1_deleteOrder ==
    /\ appBuild = "P1" /\ CanCall
    /\ \E i \in 1..Len(orders) :
           ordCalls' = Append(ordCalls, OrdCall("delete", orders[i], "delete", FALSE))
    /\ isSyncing' = TRUE
    /\ UNCHANGED <<orders, isLoading, returnModalOrder, backend, confirmed>>
    /\ UnchangedRest

\* P2 OrderForm onAdd, up to its first await: the optimistic update
P2_onAddOrder(o) ==
    /\ appBuild = "P2"
    /\ orders' = <<o>> \o orders
    /\ ordCalls' = Append(ordCalls, OrdCall("save", o, "P2_onAdd", FALSE))
    /\ UNCHANGED <<isLoading, returnModalOrder, backend, confirmed>>
    /\ UNCHANGED isSyncing
    /\ UnchangedRest

P2_onAdd ==
    /\ CanCall
    /\ Len(orders) < MaxStored
    /\ \E o \in NewOrders : P2_onAddOrder(o)

\* parseFloat(promptVal)
parseFloat(promptVal) ==
    CASE promptVal = "150" -> Num(150)
      [] promptVal = "0" -> Num(0)
      [] OTHER -> NaN

\* a handler that keeps the profit when the amount is corrected
KeptProfit(o, newStatus, promptVal) == o.profit

\* newProfit of the status select: recomputed from the unit cost when the
\* prompt of 'Settled' was answered with a number
P2_newProfit(o, newStatus, promptVal) ==
    IF newStatus = "Settled" /\ promptVal # "null" /\ parseFloat(promptVal).t # "nan"
    THEN LET actualSettledAmount == parseFloat(promptVal)
             unitCost == NumMinus(o.settledAmount, o.profit)
         IN  NumMinus(actualSettledAmount, unitCost)
    ELSE o.profit

\* actualSettledAmount of the status select
P2_actualSettledAmount(o, newStatus, promptVal) ==
    IF newStatus = "Settled" /\ promptVal # "null" /\ parseFloat(promptVal).t # "nan"
    THEN parseFloat(promptVal)
    ELSE o.settledAmount

\* o.settledAmount.toString() of the prompt throws on null and undefined
P2_promptThrows(o, newStatus) ==
    newStatus = "Settled" /\ o.settledAmount.t \in {"null", "undef"}

\* P2 status select of the order table: the onChange handler of row i with
\* the value of the event and the answer to the prompt, up to its await
P2_statusOnChange(i, newStatus, promptVal) ==
    /\ appBuild = "P2" /\ CanCall
    /\ i \in 1..Len(orders)
    /\ LET o == orders[i]
           set(item) == [item EXCEPT !.status = newStatus,
                                     !.settledAmount = P2_actualSettledAmount(o, newStatus, promptVal),
                                     !.profit = P2_newProfit(o, newStatus, promptVal)]
       IN IF P2_promptThrows(o, newStatus)
          THEN UNCHANGED <<orders, ordCalls>>
          ELSE /\ orders' = MapById(orders, o.id, set)
               /\ ordCalls' = Append(ordCalls, OrdCall("update", set(o), "P2_status", FALSE))
    /\ UNCHANGED <<isLoading, returnModalOrder, backend, confirmed>>
    /\ UNCHANGED isSyncing
    /\ UnchangedRest

\* the select offers the values of statuses
P2_statusSelect ==
    \E i \in 1..Len(orders) : \E newStatus \in StatusInputs : \E promptVal \in PromptInputs :
        /\ \E k \in 1..Len(statuses) : statuses[k] = newStatus
        /\ P2_statusOnChange(i, newStatus, promptVal)

\* an inline edit of row k of the P2 Returns tab, up to its await:
\* setOrders(prev => prev.map(item => item.id === o.id ? edit(item) : item));
\* await dbService.updateOrder(edit(o)), o being the row as rendered
P2_inlineEdit(k, edit(_), handler) ==
    /\ appBuild = "P2" /\ ~isLoading
    /\ k \in 1..Len(filteredReturnedOrders(orders))
    /\ LET o == filteredReturnedOrders(orders)[k]
       IN /\ orders' = MapById(orders, o.id, edit)
          /\ ordCalls' = Append(ordCalls, OrdCall("update", edit(o), handler, FALSE))
    /\ UNCHANGED <<isLoading, returnModalOrder, backend, confirmed>>
    /\ UNCHANGED isSyncing
    /\ UnchangedRest

\* P2 Returns tab, returnType select of row k with the value of the event,
\* up to its await
P2_returnTypeOnChange(k, val) ==
    /\ CanCall
    /\ P2_inlineEdit(k, LAMBDA item : [item EXCEPT !.returnType = val], "P2_returnType")

P2_returnTypeSelect ==
    \E k \in 1..Len(filteredReturnedOrders(orders)) : \E val \in ReturnTypeOptions :
        P2_returnTypeOnChange(k, val)

\* P2 Returns tab, lossAmount input, up to its await
P2_lossAmountOnChange(k, val) ==
    P2_inlineEdit(k, LAMBDA item : [item EXCEPT !.lossAmount = Num(val)], "P2_lossAmount")

P2_lossAmountInput ==
    /\ CanCall
    /\ \E k \in 1..Len(filteredReturnedOrders(orders)) : \E val \in LossInputs :
           P2_lossAmountOnChange(k, val)

\* P2 Returns tab, bankSettled checkbox and claimStatus select, up to the await
P2_bankSettledOnChange(k, val) ==
    P2_inlineEdit(k, LAMBDA item : [item EXCEPT !.bankSettled = val], "P2_bankSettled")

P2_claimStatusOnChange(k, val) ==
    P2_inlineEdit(k, LAMBDA item : [item EXCEPT !.claimStatus = val], "P2_claimStatus")

\* loadData() as a suspended handler; loadData(true) is the silent one
GetCall(c, handler) == [c EXCEPT !.kind = "get", !.order = NoOrder, !.handler = handler]

ReplaceAt(s, k, x) == [i \in 1..Len(s) |-> IF i = k THEN x ELSE s[i]]

\* updateOrder resolves: .update(order).eq('id', order.id); the handler
\* runs on past its await
updateOrderResolved(k) ==
    LET c == ordCalls[k]
    IN /\ c.kind = "update"
       /\ backend' = MapById(backend, c.order.id, LAMBDA row : c.order)
       /\ orders' = IF c.handler \in {"status", "returnSubmit"}
                    THEN MapById(orders, c.order.id, LAMBDA o : c.order)
                    ELSE orders
       /\ returnModalOrder' = IF c.handler = "returnSubmit" THEN NoOrder ELSE returnModalOrder
       /\ isSyncing' = IF c.handler \in {"status", "returnSubmit"} THEN FALSE ELSE isSyncing
       /\ ordCalls' = RemoveAt(ordCalls, k)
       /\ UNCHANGED <<isLoading, confirmed>>
    /\ UnchangedRest

\* updateOrder rejects: App1 has no catch, the P2 Returns tab has none
\* either, the P2 status select calls loadData()
updateOrderRejected(k) ==
    LET c == ordCalls[k]
    IN /\ c.kind = "update"
       /\ IF c.handler = "P2_status"
          THEN /\ isLoading' = TRUE
               /\ ordCalls' = ReplaceAt(ordCalls, k, GetCall(c, "resync"))
          ELSE /\ ordCalls' = RemoveAt(ordCalls, k)
               /\ UNCHANGED isLoading
       /\ isSyncing' = IF c.handler \in {"status", "returnSubmit"} THEN FALSE ELSE isSyncing
       /\ UNCHANGED <<orders, returnModalOrder, backend, confirmed>>
    /\ UnchangedRest

\* new Date(date).getTime(), counted in days since 1970-01-01 (the dates
\* carry no time of day)
getTime(date) ==
    CASE date = Date_2024_01_15 -> 19737
      [] date = Date_2024_02_03 -> 19756

\* saveOrder resolves and the handler runs on past its await.  inserted: the
\* insert added the row; otherwise it failed on the primary key and the
\* gateway of App2 (src/services/dbService.ts:337) dropped the error.  P2
\* onAdd then awaits loadData(true); addOrder puts the order in the list (at
\* the front of the current list in App1, sorted by date in App2, at the
\* front of the list of its own render in P1, which then awaits getInventory)
saveOrderReturns(k, inserted) ==
    LET c == ordCalls[k]
        order == c.order
    IN /\ c.kind = "save"
       /\ IF inserted
          THEN /\ ~HasId(backend, order.id)
               /\ backend' = Append(backend, order)
          ELSE /\ appBuild = "App2"
               /\ HasId(backend, order.id)
               /\ UNCHANGED backend
       /\ CASE c.handler = "P2_onAdd" ->
                  /\ ordCalls' = ReplaceAt(ordCalls, k, GetCall(c, "reload"))
                  /\ UNCHANGED <<orders, isSyncing>>
            [] c.handler = "addOrder" /\ appBuild = "P1" ->
                  /\ orders' = <<order>> \o c.snapshot
                  /\ ordCalls' = ReplaceAt(ordCalls, k, [c EXCEPT !.kind = "getInventory"])
                  /\ UNCHANGED isSyncing
            [] c.handler = "addOrder" /\ appBuild = "App2" ->
                  /\ orders' = Sort(Append(orders, order),
                                    LAMBDA a, b : getTime(a.date) - getTime(b.date))
                  /\ ordCalls' = RemoveAt(ordCalls, k)
                  /\ isSyncing' = FALSE
            [] OTHER ->
                  /\ orders' = <<order>> \o orders
                  /\ ordCalls' = RemoveAt(ordCalls, k)
                  /\ isSyncing' = FALSE
       /\ UNCHANGED <<isLoading, returnModalOrder, confirmed>>
    /\ UnchangedRest

saveOrderResolved(k) ==
    /\ Len(backend) < MaxStored
    /\ saveOrderReturns(k, TRUE)

\* saveOrder rejects: the catch of onAdd rolls the list back, addOrder has
\* only its finally block
saveOrderRejected(k) ==
    LET c == ordCalls[k]
    IN /\ c.kind = "save"
       /\ orders' = IF c.handler = "P2_onAdd"
                    THEN Filter(orders, LAMBDA item : item.id # c.order.id)
                    ELSE orders
       /\ isSyncing' = IF c.handler = "addOrder" THEN FALSE ELSE isSyncing
       /\ ordCalls' = RemoveAt(ordCalls, k)
       /\ UNCHANGED <<isLoading, returnModalOrder, backend, confirmed>>
    /\ UnchangedRest

\* deleteOrder resolves: App1 filters the current list, P1 the list of the
\* render it closed over
deleteOrderResolved(k) ==
    LET c == ordCalls[k]
    IN /\ c.kind = "delete"
       /\ backend' = Filter(backend, LAMBDA row : row.id # c.order.id)
       /\ orders' = IF appBuild = "P1"
                    THEN Filter(c.snapshot, LAMBDA o : o.id # c.order.id)
                    ELSE Filter(orders, LAMBDA o : o.id # c.order.id)
       /\ ordCalls' = RemoveAt(ordCalls, k)
       /\ isSyncing' = FALSE
       /\ UNCHANGED <<isLoading, returnModalOrder, confirmed>>
    /\ UnchangedRest

\* deleteOrder rejects: only the finally block runs
deleteOrderRejected(k) ==
    LET c == ordCalls[k]
    IN /\ c.kind = "delete"
       /\ ordCalls' = RemoveAt(ordCalls, k)
       /\ isSyncing' = FALSE
       /\ UNCHANGED <<orders, isLoading, returnModalOrder, backend, confirmed>>
    /\ UnchangedRest

\* getOrders resolves inside loadData
getOrdersResolved(k) ==
    LET c == ordCalls[k]
    IN /\ c.kind = "get"
       /\ orders' = getOrders(backend)
       /\ isLoading' = IF c.handler = "reload" THEN isLoading ELSE FALSE
       /\ ordCalls' = RemoveAt(ordCalls, k)
       /\ UNCHANGED <<returnModalOrder, backend, confirmed>>
       /\ UNCHANGED isSyncing
    /\ UnchangedRest

\* getOrders rejects inside loadData: catch logs, finally clears isLoading
getOrdersRejected(k) ==
    LET c == ordCalls[k]
    IN /\ c.kind = "get"
       /\ isLoading' = IF c.handler = "reload" THEN isLoading ELSE FALSE
       /\ ordCalls' = RemoveAt(ordCalls, k)
       /\ UNCHANGED <<orders, returnModalOrder, backend, confirmed>>
       /\ UNCHANGED isSyncing
    /\ UnchangedRest

NextOrd ==
    \/ App1_updateOrderStatus
    \/ App1_editReturnDetail
    \/ App1_modalCourier
    \/ App1_modalCustomer
    \/ App1_modalEdit
    \/ App1_modalDiscard
    \/ App1_handleReturnDetailSubmit
    \/ App1_deleteOrder
    \/ P1_deleteOrder
    \/ P2_onAdd
    \/ P2_statusSelect
    \/ P2_returnTypeSelect
    \/ P2_lossAmountInput
    \/ \E k \in 1..Len(ordCalls) : updateOrderResolved(k)
    \/ \E k \in 1..Len(ordCalls) : updateOrderRejected(k)
    \/ \E k \in 1..Len(ordCalls) : saveOrderResolved(k)
    \/ \E k \in 1..Len(ordCalls) : saveOrderRejected(k)
    \/ \E k \in 1..Len(ordCalls) : deleteOrderResolved(k)
    \/ \E k \in 1..Len(ordCalls) : deleteOrderRejected(k)
    \/ \E k \in 1..Len(ordCalls) : getOrdersResolved(k)
    \/ \E k \in 1..Len(ordCalls) : getOrdersRejected(k)

SpecOrd == InitOrd /\ [][NextOrd]_vars

(***************************************************************************)
(* The status select of P2 (src/unnamed/part_002:739-779) applied to every *)
(* value its change event can carry, on one loaded order.  The select      *)
(* itself offers the values of statuses.                                   *)
(***************************************************************************)
\* (settledAmount, profit) of the loaded order
StatusAmountPairs ==
    {<<Num(200), Num(80)>>, <<Num(150), Num(30)>>, <<Num(0), Num(20)>>,
     <<Num(200), Undef>>, <<StrAbc, Num(80)>>, <<Null, StrAbc>>}

StatusRows ==
    {[Order(st, a[1], a[2], "", "", Undef, FALSE, Date_2024_01_15, "Electronics")
         EXCEPT !.id = 1] : st \in {"Pending", "Shipped"}, a \in StatusAmountPairs}

InitStatus ==
    /\ orders \in {<<o>> : o \in StatusRows}
    /\ backend = orders
    /\ isLoading = FALSE
    /\ statuses = INITIAL_STATUSES
    /\ inventory = <<>>
    /\ invForm = ClosedForm("part_000")
    /\ invCalls = <<>>
    /\ appBuild = "P2"
    /\ appUser = "A"
    /\ isSyncing = FALSE
    /\ returnModalOrder = NoOrder
    /\ ordCalls = <<>>
    /\ confirmed = "none"
    /\ InitGwIdle

NextStatus ==
    \/ \E i \in 1..Len(orders) : \E newStatus \in StatusInputs : \E promptVal \in PromptInputs :
           P2_statusOnChange(i, newStatus, promptVal)
    \/ \E k \in 1..Len(ordCalls) : updateOrderResolved(k)
    \/ \E k \in 1..Len(ordCalls) : updateOrderRejected(k)
    \/ \E k \in 1..Len(ordCalls) : getOrdersResolved(k)
    \/ \E k \in 1..Len(ordCalls) : getOrdersRejected(k)

SpecStatus == InitStatus /\ [][NextStatus]_vars

(***************************************************************************)
(* dbService.retryFetch(fn, retries = 3, delay = 1000)                     *)
(* (src/services/dbService.ts:24-34).  rf is the activation: retries and   *)
(* delay are the parameters of the current invocation of retryFetch,       *)
(* retries0 and delay0 those of the outermost one, invoked counts the      *)
(* calls of fn, waited lists the timeouts that elapsed, errors the errors  *)
(* fn threw, error the one retryFetch threw to its caller.                 *)
(***************************************************************************)
DefaultRetries == 3
DefaultDelay == 1000
MaxRetries == 3      \* largest retries argument drawn

\* the delays drawn: the default and a caller's own
DelayInputs == {DefaultDelay, 250}

\* what fn may throw
FailedToFetch == [message |-> "Failed to fetch", status |-> 0]
BadGateway == [message |-> "Bad Gateway", status |-> 502]
AuthRejected == [message |-> "Invalid login credentials", status |-> 400]
ConstraintViolation == [message |-> "duplicate key value violates unique constraint", status |-> 409]
FnErrors == {FailedToFetch, BadGateway, AuthRejected, ConstraintViolation}

\* a catch that retries whatever was thrown
RetriesEveryError(error) == TRUE

\* error.message === 'Failed to fetch' || error.status === 502
IsRetried(error) == error.message = "Failed to fetch" \/ error.status = 502

\* a backoff that does not grow
ConstantDelay(delay) == delay

\* delay * 2
NextDelay(delay) == delay * 2

InitRetry ==
    /\ orders = <<>>
    /\ isLoading = TRUE
    /\ statuses = INITIAL_STATUSES
    /\ inventory = <<>>
    /\ invForm = ClosedForm("part_000")
    /\ invCalls = <<>>
    /\ InitOrdIdle

UnchangedApp ==
    /\ UNCHANGED <<orders, isLoading, statuses, inventory, invForm, invCalls>>
    /\ UNCHANGED <<appBuild, returnModalOrder, ordCalls, backend, confirmed, appUser, isSyncing>>

UnchangedTables ==
    UNCHANGED <<rfSync, gwBuild, session, osot_orders, osot_inventory, osot_profiles, gwLast>>

\* a caller invokes retryFetch; fn is called and awaited
retryFetch_call ==
    /\ rf.pc = "idle"
    /\ \E retries \in 0..MaxRetries : \E delay \in DelayInputs :
           rf' = [pc |-> "fn", retries |-> retries, delay |-> delay,
                  retries0 |-> retries, delay0 |-> delay,
                  invoked |-> 1, waited |-> <<>>, errors |-> <<>>, error |-> NoError]
    /\ UnchangedApp /\ UnchangedTables

\* return await fn()
fnResolves ==
    /\ rf.pc = "fn"
    /\ rf' = [rf EXCEPT !.pc = "returned"]
    /\ UnchangedApp /\ UnchangedTables

\* catch (error): start the timeout, or throw error
fnThrows ==
    /\ rf.pc = "fn"
    /\ \E error \in FnErrors :
           IF rf.retries > 0 /\ IsRetried(error)
           THEN rf' = [rf EXCEPT !.errors = Append(@, error), !.pc = "timeout"]
           ELSE rf' = [rf EXCEPT !.errors = Append(@, error), !.pc = "thrown",
                                 !.error = error]
    /\ UnchangedApp /\ UnchangedTables

\* the timeout elapses: return this.retryFetch(fn, retries - 1, delay * 2)
timeoutElapses ==
    /\ rf.pc = "timeout"
    /\ rf' = [rf EXCEPT !.pc = "fn", !.waited = Append(@, rf.delay),
                        !.retries = rf.retries - 1, !.delay = NextDelay(rf.delay),
                        !.invoked = @ + 1]
    /\ UnchangedApp /\ UnchangedTables

NextRetry ==
    \/ retryFetch_call
    \/ fnResolves
    \/ fnThrows
    \/ timeoutElapses

SpecRetry == InitRetry /\ [][NextRetry]_vars

(***************************************************************************)
(* The gateway dbService, in its three builds:                             *)
(*   "dbService1"  src/services/dbService.ts:22-205 (calls via retryFetch) *)
(*   "dbService2"  src/services/dbService.ts:223-344                       *)
(*   "part_004"    src/unnamed/part_004:34-208                             *)
(* session is the identity supabase.auth.getUser() yields ("none" when     *)
(* nobody is signed in).  osot_orders and osot_inventory are the tables:   *)
(* sets of rows [id, user_id, v], id the primary key, user_id the owner    *)
(* ("null" for a row stored before the column existed), v the remaining    *)
(* attributes of the record taken together.  gwLast is the gateway call    *)
(* that completed last: its operation, the caller, how it ended and what   *)
(* it returned.  Each action is one whole call.                            *)
(***************************************************************************)
MaxKey == 2          \* primary keys 1..MaxKey

GwBuilds == {"dbService1", "dbService2", "part_004"}
Users == {"A", "B"}
Keys == 1..MaxKey
Values == {"x", "y"}

Row(id, user_id, v) == [id |-> id, user_id |-> user_id, v |-> v]

\* the tables when the gateway is first called
InitialTables ==
    { {},
      {Row(1, "A", "x")},
      {Row(1, "A", "x"), Row(2, "B", "x")},
      {Row(1, "A", "x"), Row(2, "null", "x")} }

\* how a completed call is recorded
Returned(op, value) ==
    [op |-> op, caller |-> session, outcome |-> "returned", value |-> value,
     error |-> ""]
\* return data, where the failed select left data null
ReturnedNull(op) ==
    [op |-> op, caller |-> session, outcome |-> "returned null", value |-> {},
     error |-> ""]
\* return { success: false, count: 0, error }
Failed(op, error) ==
    [op |-> op, caller |-> session, outcome |-> "returned", value |-> {},
     error |-> error]
Thrown(op, error) ==
    [op |-> op, caller |-> session, outcome |-> "thrown", value |-> {},
     error |-> error]

\* .select('*').eq('user_id', user.id)
OwnedBy(table, user) == {r \in table : r.user_id = user}

\* .insert(rows): the primary key is unique
CanInsert(table, id) == \A r \in table : r.id # id

\* .update(record).eq('id', record.id)
UpdateById(table, id, v) ==
    {IF r.id = id THEN [r EXCEPT !.v = v] ELSE r : r \in table}

\* .delete().eq('id', id)
DeleteById(table, id) == {r \in table : r.id # id}

\* .update({ user_id: user.id }).is('user_id', null)
ClaimOrphans(table, user) ==
    {IF r.user_id = "null" THEN [r EXCEPT !.user_id = user] ELSE r : r \in table}

\* the App before any handler has run
InitAppIdle ==
    /\ orders = <<>>
    /\ isLoading = TRUE
    /\ statuses = INITIAL_STATUSES
    /\ inventory = <<>>
    /\ invForm = ClosedForm("part_000")
    /\ invCalls = <<>>
    /\ appBuild = "App1"
    /\ appUser = "A"
    /\ isSyncing = FALSE
    /\ returnModalOrder = NoOrder
    /\ ordCalls = <<>>
    /\ backend = <<>>
    /\ confirmed = "none"

InitGw ==
    /\ InitAppIdle
    /\ gwBuild \in GwBuilds
    /\ session \in Users \cup {"none"}
    /\ osot_orders \in InitialTables
    /\ osot_inventory \in InitialTables
    /\ osot_profiles = {}
    /\ gwLast = NoCall
    /\ rf = IdleRetry
    /\ rfSync = IdleRetry

UnchangedIdentity == UNCHANGED <<rf, rfSync, gwBuild, session, osot_profiles>>

\* a select that the store answers (ok) or fails, as each build handles it
SelectOwn(op, table, ok) ==
    IF session = "none" THEN Returned(op, {})
    ELSE IF ok THEN Returned(op, OwnedBy(table, session))
    ELSE IF gwBuild = "dbService2" THEN ReturnedNull(op)
    ELSE Thrown(op, "StoreError")

gw_getOrders ==
    /\ \E ok \in BOOLEAN : gwLast' = SelectOwn("getOrders", osot_orders, ok)
    /\ UNCHANGED <<osot_orders, osot_inventory>>
    /\ UnchangedApp /\ UnchangedIdentity

gw_getInventory ==
    /\ \E ok \in BOOLEAN : gwLast' = SelectOwn("getInventory", osot_inventory, ok)
    /\ UNCHANGED <<osot_orders, osot_inventory>>
    /\ UnchangedApp /\ UnchangedIdentity

\* an insert of one record for the caller, as each build guards and checks it
InsertOwn(op, table, id, v, ok) ==
    IF session = "none"
    THEN [table |-> table,
          last |-> IF gwBuild = "part_004" THEN Thrown(op, "User not authenticated.")
                   ELSE Returned(op, {})]
    ELSE IF ok /\ CanInsert(table, id)
    THEN [table |-> table \cup {Row(id, session, v)}, last |-> Returned(op, {})]
    ELSE [table |-> table,
          last |-> IF gwBuild = "dbService2" THEN Returned(op, {})
                   ELSE Thrown(op, "StoreError")]

\* an update or a delete by primary key, as each build checks it
ById(op, table, changed, ok) ==
    IF ok
    THEN [table |-> changed, last |-> Returned(op, {})]
    ELSE [table |-> table,
          last |-> IF gwBuild = "dbService2" THEN Returned(op, {})
                   ELSE Thrown(op, "StoreError")]

gw_saveOrder ==
    /\ \E id \in Keys : \E v \in Values : \E ok \in BOOLEAN :
         LET res == InsertOwn("saveOrder", osot_orders, id, v, ok)
         IN  osot_orders' = res.table /\ gwLast' = res.last
    /\ UNCHANGED osot_inventory
    /\ UnchangedApp /\ UnchangedIdentity

gw_updateOrder ==
    /\ \E id \in Keys : \E v \in Values : \E ok \in BOOLEAN :
         LET res == ById("updateOrder", osot_orders, UpdateById(osot_orders, id, v), ok)
         IN  osot_orders' = res.table /\ gwLast' = res.last
    /\ UNCHANGED osot_inventory
    /\ UnchangedApp /\ UnchangedIdentity

gw_deleteOrder ==
    /\ gwBuild = "part_004"
    /\ \E id \in Keys : \E ok \in BOOLEAN :
         LET res == ById("deleteOrder", osot_orders, DeleteById(osot_orders, id), ok)
         IN  osot_orders' = res.table /\ gwLast' = res.last
    /\ UNCHANGED osot_inventory
    /\ UnchangedApp /\ UnchangedIdentity

gw_saveInventoryItem ==
    /\ \E id \in Keys : \E v \in Values : \E ok \in BOOLEAN :
         LET res == InsertOwn("saveInventoryItem", osot_inventory, id, v, ok)
         IN  osot_inventory' = res.table /\ gwLast' = res.last
    /\ UNCHANGED osot_orders
    /\ UnchangedApp /\ UnchangedIdentity

gw_updateInventoryItem ==
    /\ gwBuild \in {"dbService1", "part_004"}
    /\ \E id \in Keys : \E v \in Values : \E ok \in BOOLEAN :
         LET res == ById("updateInventoryItem", osot_inventory,
                         UpdateById(osot_inventory, id, v), ok)
         IN  osot_inventory' = res.table /\ gwLast' = res.last
    /\ UNCHANGED osot_orders
    /\ UnchangedApp /\ UnchangedIdentity

gw_deleteInventoryItem ==
    /\ gwBuild = "part_004"
    /\ \E id \in Keys : \E ok \in BOOLEAN :
         LET res == ById("deleteInventoryItem", osot_inventory,
                         DeleteById(osot_inventory, id), ok)
         IN  osot_inventory' = res.table /\ gwLast' = res.last
    /\ UNCHANGED osot_orders
    /\ UnchangedApp /\ UnchangedIdentity

\* part_004: claimLegacyData; either update may fail, and the first is not
\* undone when the second fails
gw_claimLegacyData ==
    /\ gwBuild = "part_004"
    /\ \E invOk \in BOOLEAN : \E ordOk \in BOOLEAN :
         IF session = "none"
         THEN /\ gwLast' = Failed("claimLegacyData", "Not logged in")
              /\ UNCHANGED <<osot_orders, osot_inventory>>
         ELSE /\ osot_inventory' = IF invOk THEN ClaimOrphans(osot_inventory, session)
                                   ELSE osot_inventory
              /\ osot_orders' = IF ordOk THEN ClaimOrphans(osot_orders, session)
                                ELSE osot_orders
              /\ gwLast' = IF invOk /\ ordOk THEN Returned("claimLegacyData", {})
                            ELSE Failed("claimLegacyData", "StoreError")
    /\ UnchangedApp /\ UnchangedIdentity

\* the primary keys the store gives to inserted rows that carry none
FreeKeys(table) == {k \in Keys : \A r \in table : r.id # k}

\* rows.map(({ id, ...rest }) => ({ ...rest, user_id: targetUserId })), inserted
Clones(table, rows, targetUserId) ==
    LET key == CHOOSE f \in [rows -> FreeKeys(table)] :
                   \A r1, r2 \in rows : f[r1] = f[r2] => r1 = r2
    IN  {Row(key[r], targetUserId, r.v) : r \in rows}

\* one kind of shareData: select the caller's rows, insert the copies; the
\* result of the insert is not looked at
ShareKind(table, selected, targetUserId, ok) ==
    IF selected /\ ok
    THEN table \cup Clones(table, OwnedBy(table, session), targetUserId)
    ELSE table

\* the store has keys left for the copies
CanClone(table, selected) ==
    selected => Cardinality(OwnedBy(table, session)) <= Cardinality(FreeKeys(table))

gw_shareData(targetUserId, inv, ord) ==
    /\ gwBuild \in {"dbService1", "dbService2"}
    /\ IF session = "none"
       THEN UNCHANGED <<osot_orders, osot_inventory>>
       ELSE /\ CanClone(osot_inventory, inv) /\ CanClone(osot_orders, ord)
            /\ \E invOk \in BOOLEAN : \E ordOk \in BOOLEAN :
                 /\ osot_inventory' = ShareKind(osot_inventory, inv, targetUserId, invOk)
                 /\ osot_orders' = ShareKind(osot_orders, ord, targetUserId, ordOk)
    /\ gwLast' = Returned("shareData", {})
    /\ UnchangedApp /\ UnchangedIdentity

NextGw ==
    \/ gw_getOrders
    \/ gw_getInventory
    \/ gw_saveOrder
    \/ gw_updateOrder
    \/ gw_deleteOrder
    \/ gw_saveInventoryItem
    \/ gw_updateInventoryItem
    \/ gw_deleteInventoryItem
    \/ gw_claimLegacyData
    \/ \E targetUserId \in Users : \E inv \in BOOLEAN : \E ord \in BOOLEAN :
           gw_shareData(targetUserId, inv, ord)

SpecGw == InitGw /\ [][NextGw]_vars

(***************************************************************************)
(* The auth operations of the gateway.  osot_profiles is the table of      *)
(* UserProfile rows [id, role]; email and updated_at, which every upsert   *)
(* writes from the user it is given, are not kept.  A login or register    *)
(* call records the user it returned, the role it was given and what       *)
(* became of the profile upsert: "none" (not issued), "done" or "failed".  *)
(* In dbService1 the call runs inside retryFetch; the outcome here is that *)
(* of its last attempt.                                                    *)
(***************************************************************************)
Roles == {"Staff", "Admin"}

Profile(id, role) == [id |-> id, role |-> role]

\* .upsert(profileData, { onConflict: 'id' }); profileData.role only if (role)
Upsert(table, id, role) ==
    IF role = "omitted"
    THEN IF \E p \in table : p.id = id THEN table
         ELSE table \cup {Profile(id, "default")}
    ELSE {p \in table : p.id # id} \cup {Profile(id, role)}

InitAuth ==
    /\ InitAppIdle
    /\ gwBuild \in GwBuilds
    /\ session = "none"
    /\ osot_orders = {}
    /\ osot_inventory = {}
    /\ osot_profiles = {}
    /\ gwLast = NoCall
    /\ rf = IdleRetry
    /\ rfSync = IdleRetry

AuthEnded(op, outcome, user, role, upsert, error) ==
    [op |-> op, caller |-> session, outcome |-> outcome, value |-> {},
     user |-> user, role |-> role, upsert |-> upsert, error |-> error]

\* the body of login and register: the auth call yields user ("none" with an
\* error when it is refused); sync says whether the build calls syncProfile,
\* upsertOk whether the store accepts the upsert
SignIn(op, user, role, sync, upsertOk) ==
    IF user = "none"
    THEN /\ gwLast' = AuthEnded(op, "returned", "none", role, "none", "AuthError")
         /\ UNCHANGED osot_profiles
    ELSE IF ~sync
    THEN /\ gwLast' = AuthEnded(op, "returned", user, role, "none", "")
         /\ UNCHANGED osot_profiles
    ELSE IF upsertOk
    THEN /\ gwLast' = AuthEnded(op, "returned", user, role, "done", "")
         /\ osot_profiles' = Upsert(osot_profiles, user, role)
    ELSE /\ gwLast' = IF gwBuild = "dbService1"
                      THEN AuthEnded(op, "thrown", "none", role, "failed", "StoreError")
                      ELSE AuthEnded(op, "returned", user, role, "failed", "")
         /\ UNCHANGED osot_profiles

gw_login ==
    /\ \E user \in Users \cup {"none"} : \E upsertOk \in BOOLEAN :
         /\ SignIn("login", user, "omitted", gwBuild # "part_004", upsertOk)
         /\ session' = IF user = "none" THEN session ELSE user
    /\ UNCHANGED <<rf, rfSync, gwBuild, osot_orders, osot_inventory>>
    /\ UnchangedApp

\* signUp signs the new user in unless the project asks for a confirmation
gw_register ==
    /\ gwBuild \in {"dbService1", "dbService2"}
    /\ \E user \in Users \cup {"none"} : \E role \in Roles :
       \E upsertOk \in BOOLEAN : \E signedIn \in BOOLEAN :
         /\ SignIn("register", user, role, TRUE, upsertOk)
         /\ session' = IF user # "none" /\ signedIn THEN user ELSE session
    /\ UNCHANGED <<rf, rfSync, gwBuild, osot_orders, osot_inventory>>
    /\ UnchangedApp

gw_logout ==
    /\ session' = "none"
    /\ gwLast' = AuthEnded("logout", "returned", "none", "omitted", "none", "")
    /\ UNCHANGED <<rf, rfSync, gwBuild, osot_orders, osot_inventory, osot_profiles>>
    /\ UnchangedApp

NextAuth ==
    \/ gw_login
    \/ gw_register
    \/ gw_logout

SpecAuth == InitAuth /\ [][NextAuth]_vars

(***************************************************************************)
(* Reference figures of the revenue / profit rule, used by the properties. *)
(***************************************************************************)
RECURSIVE SumSeq(_)
SumSeq(f) == IF f = <<>> THEN 0 ELSE Head(f) + SumSeq(Tail(f))

\* a field's amount, a missing or non-numeric one counting 0
Val0(x) == IF x.t = "num" THEN x.v ELSE 0

IsActiveLoss(o) ==
    o.status = "Returned" /\ o.returnType = "Customer" /\ o.claimStatus # "Approved"

RefSettledRevenue(os) ==
    SumSeq([i \in 1..Len(os) |->
              IF os[i].status = "Settled" THEN Val0(os[i].settledAmount) ELSE 0])

RefNetProfit(os) ==
    SumSeq([i \in 1..Len(os) |->
              IF os[i].status = "Settled" THEN Val0(os[i].profit)
              ELSE IF IsActiveLoss(os[i]) THEN 0 - Val0(os[i].lossAmount)
              ELSE 0])

\* the orders of one month
InMonth(os, month) == Filter(os, LAMBDA o : Substring0(o.date, 7) = month)

MonthsOf(os) == {Substring0(os[i].date, 7) : i \in 1..Len(os)}

(***************************************************************************)
(* C1: the settled revenue shown by the dashboard (stats.totalRevenue of   *)
(* App1, App2 and P1, stats.rev of P2) is the sum of settledAmount over    *)
(* the Settled orders; an order in any other status contributes 0.         *)
(* Holds for App1 and App2; P1 sums every order and P2 subtracts the loss  *)
(* of bank-settled returns.                                                *)
(***************************************************************************)
C1_RevenueIsSettledSum ==
    /\ App1_stats(orders).totalRevenue = Num(RefSettledRevenue(orders))
    /\ App2_stats(orders).totalRevenue = Num(RefSettledRevenue(orders))
    /\ P1_stats(orders).totalRevenue = Num(RefSettledRevenue(orders))
    /\ P2_stats(orders).rev = Num(RefSettledRevenue(orders))

(***************************************************************************)
(* C2: the dashboard's net profit (stats.totalProfit of App2, stats.prof   *)
(* of P2) is the profit of the Settled orders minus the lossAmount of the  *)
(* orders that are Returned, Customer and not Approved.                    *)
(* App2 also counts returns that are not Customer returns; P2 counts the   *)
(* returns whose bankSettled is set.                                       *)
(***************************************************************************)
C2_NetProfitRule ==
    /\ App2_stats(orders).totalProfit = Num(RefNetProfit(orders))
    /\ P2_stats(orders).prof = Num(RefNetProfit(orders))

(***************************************************************************)
(* C3: when the claimStatus select moves a Returned Customer order from a  *)
(* non-Approved value to Approved the net profit rises by that order's     *)
(* lossAmount, and moving it from Approved to a non-Approved value lowers  *)
(* it by the same amount.  Holds for App1's stats; P2's stats never reads  *)
(* claimStatus.                                                            *)
(***************************************************************************)
ClaimToggled(i, from, to) ==
    /\ i \in 1..Len(orders)
    /\ Len(orders') = Len(orders)
    /\ orders[i].status = "Returned" /\ orders[i].returnType = "Customer"
    /\ (orders[i].claimStatus = "Approved") = from
    /\ (orders'[i].claimStatus = "Approved") = to
    /\ orders' = [orders EXCEPT ![i].claimStatus = orders'[i].claimStatus]

C3_ApprovalTogglesLoss ==
    [][\A i \in 1..Len(orders) :
         /\ ClaimToggled(i, FALSE, TRUE) =>
              /\ App1_stats(orders').totalProfit =
                     NumPlus(App1_stats(orders).totalProfit, Num(Val0(orders[i].lossAmount)))
              /\ P2_stats(orders').prof =
                     NumPlus(P2_stats(orders).prof, Num(Val0(orders[i].lossAmount)))
         /\ ClaimToggled(i, TRUE, FALSE) =>
              /\ App1_stats(orders').totalProfit =
                     NumMinus(App1_stats(orders).totalProfit, Num(Val0(orders[i].lossAmount)))
              /\ P2_stats(orders').prof =
                     NumMinus(P2_stats(orders).prof, Num(Val0(orders[i].lossAmount)))]_vars

(***************************************************************************)
(* C4: a Courier return never contributes loss: the net profit of App1 and *)
(* App2, and every monthly and category profit of App1, equal the figure   *)
(* computed with the lossAmount of every Courier order set to 0.           *)
(* Holds for App1's stats only: App2's stats and App1's monthlyData and    *)
(* category table do not read returnType.                                  *)
(***************************************************************************)
ZeroCourierLoss(os) ==
    [i \in 1..Len(os) |->
        IF os[i].returnType = "Courier" THEN [os[i] EXCEPT !.lossAmount = Num(0)] ELSE os[i]]

C4_CourierNoLoss ==
    /\ App1_stats(orders).totalProfit = App1_stats(ZeroCourierLoss(orders)).totalProfit
    /\ App2_stats(orders).totalProfit = App2_stats(ZeroCourierLoss(orders)).totalProfit
    /\ App1_monthlyData(orders) = App1_monthlyData(ZeroCourierLoss(orders))
    /\ \A c \in 1..Len(CATEGORIES) :
           App1_catProfit(orders, CATEGORIES[c]) =
               App1_catProfit(ZeroCourierLoss(orders), CATEGORIES[c])

(***************************************************************************)
(* C5: the margin is exactly 0 whenever the revenue figure is 0, so the    *)
(* division is never made with a zero denominator.  Holds for App1 (and    *)
(* App2); P1 divides whenever the list is non-empty.                       *)
(***************************************************************************)
C5_MarginZeroOnZeroRevenue ==
    /\ App1_stats(orders).totalRevenue = Num(0) => App1_stats(orders).avgMargin = MZero
    /\ P1_stats(orders).totalRevenue = Num(0) => P1_stats(orders).avgMargin = MZero

(***************************************************************************)
(* C6: every aggregate of App1 (stats, each monthly bucket, each category  *)
(* profit) treats a null, undefined or non-numeric settledAmount, profit   *)
(* or lossAmount as 0: the totals are the ones computed with such values   *)
(* replaced by 0.  Holds for stats; monthlyData and the category table     *)
(* add Number(x) without the || 0 fallback.                                *)
(***************************************************************************)
Clean(os) ==
    [i \in 1..Len(os) |->
        [os[i] EXCEPT !.settledAmount = Num(Val0(@)),
                      !.profit = Num(Val0(@)),
                      !.lossAmount = Num(Val0(@))]]

C6_NonNumericCountsZero ==
    /\ App1_stats(orders) = App1_stats(Clean(orders))
    /\ App1_monthlyData(orders) = App1_monthlyData(Clean(orders))
    /\ \A c \in 1..Len(CATEGORIES) :
           App1_catProfit(orders, CATEGORIES[c]) = App1_catProfit(Clean(orders), CATEGORIES[c])

(***************************************************************************)
(* C8: the monthly series (monthlyData of App1 and P2, monthlyReports of   *)
(* P1) has exactly one bucket for each YYYY-MM prefix in the order list    *)
(* and is ordered by month strictly ascending.  P1 sorts descending.       *)
(***************************************************************************)
OneBucketPerMonthAscending(series, os) ==
    /\ {series[i].month : i \in 1..Len(series)} = MonthsOf(os)
    /\ Len(series) = Cardinality(MonthsOf(os))
    /\ \A i \in 1..Len(series) - 1 : localeCompare(series[i].month, series[i + 1].month) < 0

C8_MonthlyBucketsAscending ==
    /\ OneBucketPerMonthAscending(App1_monthlyData(orders), orders)
    /\ OneBucketPerMonthAscending(P1_monthlyReports(orders), orders)
    /\ OneBucketPerMonthAscending(P2_monthlyData(orders), orders)

(***************************************************************************)
(* C9: each monthly bucket (App1, P2) follows the dashboard rule: its      *)
(* revenue is the settledAmount of the month's Settled orders and its      *)
(* profit their profit minus the lossAmount of the month's Returned,       *)
(* Customer, not Approved orders; so App1's bucket revenues and profits    *)
(* add up to App1's dashboard revenue and net profit.  Stated for lists    *)
(* whose amounts are all numbers.  App1's buckets subtract the loss of     *)
(* every unapproved return, P2's the loss of every bank-settled return,    *)
(* from revenue as well as from profit.                                    *)
(***************************************************************************)
BucketsFollowRule(series, os) ==
    \A i \in 1..Len(series) :
        /\ series[i].revenue = Num(RefSettledRevenue(InMonth(os, series[i].month)))
        /\ series[i].profit = Num(RefNetProfit(InMonth(os, series[i].month)))

AllNumeric(os) ==
    \A i \in 1..Len(os) :
        os[i].settledAmount.t = "num" /\ os[i].profit.t = "num" /\ os[i].lossAmount.t = "num"

C9_BucketsMatchDashboard ==
    AllNumeric(orders) =>
        /\ BucketsFollowRule(App1_monthlyData(orders), orders)
        /\ BucketsFollowRule(P2_monthlyData(orders), orders)
        /\ Reduce(App1_monthlyData(orders), LAMBDA s, b : NumPlus(s, b.revenue), Num(0))
               = App1_stats(orders).totalRevenue
        /\ Reduce(App1_monthlyData(orders), LAMBDA s, b : NumPlus(s, b.profit), Num(0))
               = App1_stats(orders).totalProfit

(***************************************************************************)
(* C10: the status summary (sortedStatusSummary of App2, orderStatusSummary*)
(* of P2) has one entry per label of the status vocabulary, zero counts    *)
(* included, each with the number of orders in that status, sorted by      *)
(* count descending with ties in vocabulary order.  Holds for App2; P2     *)
(* builds its summary from the statuses found in the orders.               *)
(***************************************************************************)
CountOf(os, s) == Cardinality({i \in 1..Len(os) : os[i].status = s})

VocabIndex(sts, s) == CHOOSE i \in 1..Len(sts) : sts[i] = s

IsStatusSummary(names, counts, os, sts) ==
    /\ Len(names) = Len(sts)
    /\ {names[i] : i \in 1..Len(names)} = {sts[i] : i \in 1..Len(sts)}
    /\ \A i \in 1..Len(names) : counts[i] = CountOf(os, names[i])
    /\ \A i \in 1..Len(names) - 1 :
           \/ counts[i] > counts[i + 1]
           \/ /\ counts[i] = counts[i + 1]
              /\ VocabIndex(sts, names[i]) < VocabIndex(sts, names[i + 1])

C10_StatusSummaryCoversVocabulary ==
    /\ LET sm == App2_sortedStatusSummary(orders, statuses)
       IN IsStatusSummary([i \in 1..Len(sm) |-> sm[i].name],
                          [i \in 1..Len(sm) |-> sm[i].count], orders, statuses)
    /\ LET sm == P2_orderStatusSummary(orders)
       IN IsStatusSummary([i \in 1..Len(sm) |-> sm[i].status],
                          [i \in 1..Len(sm) |-> sm[i].count], orders, statuses)

(***************************************************************************)
(* C7: while the open form holds a sku that, trimmed and lower-cased,      *)
(* equals that of another inventory item (any item when adding, any item   *)
(* with a different id when editing), no step invokes onAdd or onUpdate;   *)
(* and the in-memory inventory never holds two items whose skus are equal  *)
(* up to case.  The form of src/components/InventoryForm.tsx makes no such *)
(* check.                                                                  *)
(***************************************************************************)
NormSku(s) == toLowerCase(trim(s))

DuplicateEntered ==
    /\ invForm.open
    /\ \E i \in 1..Len(inventory) :
           /\ NormSku(inventory[i].sku) = NormSku(invForm.sku)
           /\ (invForm.initialData = NoItem \/ inventory[i].id # invForm.initialData.id)

NoEqualSkus ==
    \A i, j \in 1..Len(inventory) :
        i # j => NormSku(inventory[i].sku) # NormSku(inventory[j].sku)

C7_DuplicateSkuRejected ==
    [][/\ DuplicateEntered => Len(invCalls') <= Len(invCalls)
       /\ NoEqualSkus']_vars

(***************************************************************************)
(* C11: a change of status to 'Returned' persists no bare status flip.     *)
(* An order of the in-memory list or a row of the store turns Returned     *)
(* only in the step in which a confirmed return-detail submit completes;   *)
(* a step that opens the return modal leaves the list, the store and the   *)
(* calls in flight alone and seeds the modal with the order's own return   *)
(* fields; a step that closes the modal without a completed submit leaves  *)
(* the list and the store alone.  The status select of part_002 sets the   *)
(* status at once and calls updateOrder.                                   *)
(***************************************************************************)
BecomesReturned(before, after) ==
    \E i \in 1..Len(before) : \E j \in 1..Len(after) :
        /\ before[i].id = after[j].id
        /\ before[i].status # "Returned"
        /\ after[j].status = "Returned"

ReturnSubmitCompletes ==
    \E k \in 1..Len(ordCalls) :
        /\ ordCalls[k].handler = "returnSubmit"
        /\ ordCalls' = RemoveAt(ordCalls, k)

SeededFrom(m, o) ==
    /\ m.id = o.id
    /\ m.lossAmount = o.lossAmount
    /\ o.returnType # "" => m.returnType = o.returnType
    /\ o.claimStatus # "" => m.claimStatus = o.claimStatus

C11_ReturnedOnlyAfterConfirm ==
    [][/\ BecomesReturned(orders, orders') => ReturnSubmitCompletes
       /\ BecomesReturned(backend, backend') => ReturnSubmitCompletes
       /\ \A k \in 1..Len(ordCalls') :
              (/\ ordCalls'[k].kind = "update"
               /\ ordCalls'[k].order.status = "Returned"
               /\ BecomesReturned(ordCalls'[k].snapshot, <<ordCalls'[k].order>>))
              => ordCalls'[k].handler = "returnSubmit"
       /\ (returnModalOrder = NoOrder /\ returnModalOrder' # NoOrder)
              => /\ UNCHANGED <<orders, backend, ordCalls>>
                 /\ \E i \in 1..Len(orders) : SeededFrom(returnModalOrder', orders[i])
       /\ (returnModalOrder # NoOrder /\ returnModalOrder' = NoOrder /\ ~ReturnSubmitCompletes)
              => UNCHANGED <<orders, backend>>]_vars

(***************************************************************************)
(* C12: when the updateOrder call of a return-detail edit rejects, the     *)
(* in-memory order keeps the return fields the store holds and, for the    *)
(* return modal, the rejection does not close the modal or change its      *)
(* draft; and whenever no call is in flight the return fields of every     *)
(* in-memory order equal those of its row in the store.  The Returns tab   *)
(* of part_002 writes the edit into the list before the call and has no    *)
(* catch.                                                                  *)
(***************************************************************************)
ReturnFields(o) == <<o.returnType, o.lossAmount, o.claimStatus>>

ReturnFieldsInSync(os, rows, id) ==
    \A i \in 1..Len(os) : \A j \in 1..Len(rows) :
        (os[i].id = id /\ rows[j].id = id) => ReturnFields(os[i]) = ReturnFields(rows[j])

ReturnEditHandlers == {"returnSubmit", "P2_returnType", "P2_lossAmount"}

C12_RejectedReturnEditKeepsBackendValues ==
    [][/\ \A k \in 1..Len(ordCalls) :
              (updateOrderRejected(k) /\ ordCalls[k].handler \in ReturnEditHandlers)
              => /\ ReturnFieldsInSync(orders', backend', ordCalls[k].order.id)
                 /\ ordCalls[k].handler = "returnSubmit"
                        => returnModalOrder' = returnModalOrder
       /\ ordCalls' = <<>>
              => \A i \in 1..Len(orders') :
                     ReturnFieldsInSync(orders', backend', orders'[i].id)]_vars

(***************************************************************************)
(* C13: every optimistic update is rolled back when its gateway call       *)
(* rejects: in the step in which the failure path of the handler ends,     *)
(* the in-memory list is again the list as it was before the handler       *)
(* touched it.  The failure path of P2's onAdd ends in its catch, that of  *)
(* the Returns tab edits at the rejection (there is no catch), that of     *)
(* the status select when the loadData() of its catch has ended.           *)
(***************************************************************************)
OptimisticFailureEnds(k) ==
    \/ saveOrderRejected(k)
    \/ updateOrderRejected(k) /\ ordCalls[k].handler \in {"P2_returnType", "P2_lossAmount"}
    \/ (getOrdersResolved(k) \/ getOrdersRejected(k)) /\ ordCalls[k].handler = "resync"

C13_OptimisticUpdateRolledBack ==
    [][\A k \in 1..Len(ordCalls) :
           OptimisticFailureEnds(k) => orders' = ordCalls[k].snapshot]_vars

(***************************************************************************)
(* C20: a delete reaches the gateway only after the operator accepted the  *)
(* confirmation for it: every deleteOrder call in flight was issued after  *)
(* an accepted confirm(), and a step in which confirm() is declined        *)
(* issues no call and leaves the in-memory list and the store alone.       *)
(* deleteOrder of part_001 asks nothing.                                   *)
(***************************************************************************)
C20_DeleteOnlyAfterConfirm ==
    [][/\ \A k \in 1..Len(ordCalls') :
              ordCalls'[k].kind = "delete" => ordCalls'[k].asked
       /\ (confirmed # "declined" /\ confirmed' = "declined")
              => UNCHANGED <<orders, backend, ordCalls>>]_vars

(***************************************************************************)
(* C14: retryFetch retries with exponential backoff and a bounded number   *)
(* of attempts.  fn is invoked at most retries + 1 times; before the i-th  *)
(* retry exactly the delay of the call times 2^(i-1) has been waited       *)
(* (1000, 2000, 4000 ms with the defaults); a resolved fn ends the call    *)
(* with no further invocation; a failure that is retried while attempts    *)
(* remain is thrown only when they are used up, and what is thrown is the  *)
(* last error of fn.                                                       *)
(***************************************************************************)
TransientError(e) == e.message = "Failed to fetch" \/ e.status = 502

C14_BoundedExponentialBackoff ==
    [][/\ rf'.invoked <= rf'.retries0 + 1
       /\ rf'.pc # "idle" => Len(rf'.waited) = rf'.invoked - 1
       /\ \A i \in 1..Len(rf'.waited) : rf'.waited[i] = rf'.delay0 * 2^(i - 1)
       /\ rf'.pc = "returned" => Len(rf'.errors) = rf'.invoked - 1
       /\ rf'.pc = "thrown"
              => /\ Len(rf'.errors) = rf'.invoked
                 /\ rf'.error = rf'.errors[Len(rf'.errors)]
                 /\ TransientError(rf'.error) => rf'.invoked = rf'.retries0 + 1
       /\ rf.pc \in {"returned", "thrown"} => rf' = rf]_vars

\* the defaults, every attempt failing with 'Failed to fetch'
C14_Witness ==
    /\ rf.pc = "thrown"
    /\ rf.retries0 = DefaultRetries /\ rf.delay0 = DefaultDelay
    /\ rf.invoked = 4
    /\ rf.waited = <<1000, 2000, 4000>>
    /\ rf.error = FailedToFetch

(***************************************************************************)
(* C15: a failure that is not transient is never retried.  As written,     *)
(* every error other than 'Failed to fetch' counts as not transient:       *)
(* after fn throws one, retryFetch throws that same error with no timeout  *)
(* and no further call of fn.  The catch also retries an error whose       *)
(* status is 502.                                                          *)
(***************************************************************************)
ThrownAtOnce(i) ==
    /\ rf.pc = "thrown"
    /\ rf.error = rf.errors[i]
    /\ Len(rf.errors) = i
    /\ rf.invoked = i
    /\ Len(rf.waited) = i - 1

C15_OnlyFailedToFetchRetried ==
    \A i \in 1..Len(rf.errors) :
        rf.errors[i].message # "Failed to fetch" => ThrownAtOnce(i)

\* C15, amended: an error whose message is not 'Failed to fetch' and whose
\* status is not 502 is thrown to the caller at once: no timeout is started
\* and fn is not called again
C15_NonTransientNotRetried ==
    \A i \in 1..Len(rf.errors) :
        ~TransientError(rf.errors[i]) => ThrownAtOnce(i)

\* the defaults, fn rejected by the identity provider on its first call
C15_Witness ==
    /\ rf.pc = "thrown"
    /\ rf.retries0 = DefaultRetries
    /\ rf.errors = <<AuthRejected>>
    /\ rf.error = AuthRejected
    /\ rf.invoked = 1
    /\ rf.waited = <<>>

(***************************************************************************)
(* C16.  A getOrders() or getInventory() call made while nobody is signed  *)
(* in (getCurrentUser yields no user) ends by throwing NotAuthenticated:   *)
(* it never returns a list in that state.                                  *)
(***************************************************************************)
ReadOps == {"getOrders", "getInventory"}

C16_NoSessionReadFails ==
    (gwLast.op \in ReadOps /\ gwLast.caller = "none")
        => (gwLast.outcome = "thrown" /\ gwLast.error = "NotAuthenticated")

(***************************************************************************)
(* C17.  A mutation of the gateway (saveOrder, updateOrder, deleteOrder,   *)
(* their inventory counterparts, claimLegacyData) issued by one identity   *)
(* leaves every row owned by a different identity in the table as it was,  *)
(* and never changes the owner of a row that has one.                      *)
(***************************************************************************)
MutationOps ==
    {"saveOrder", "updateOrder", "deleteOrder", "saveInventoryItem",
     "updateInventoryItem", "deleteInventoryItem", "claimLegacyData"}

\* the rows of other identities are kept as they are
OthersKept(before, after) ==
    \A r \in before : (r.user_id \in Users /\ r.user_id # session) => r \in after

\* a row that has an owner keeps it
OwnerKept(before, after) ==
    \A r \in before : \A r2 \in after :
        (r.id = r2.id /\ r.user_id \in Users) => r2.user_id = r.user_id

C17_MutationsScopedToCaller ==
    [][gwLast'.op \in MutationOps
         => /\ OthersKept(osot_orders, osot_orders')
            /\ OthersKept(osot_inventory, osot_inventory')
            /\ OwnerKept(osot_orders, osot_orders')
            /\ OwnerKept(osot_inventory, osot_inventory')]_vars

(***************************************************************************)
(* C18.  When login or register returns a user without error, the upsert   *)
(* of that user's UserProfile row (with the role, when registering) was    *)
(* issued and completed before the return, so the row is in osot_profiles; *)
(* when they return no user, no upsert was issued.                         *)
(***************************************************************************)
AuthOps == {"login", "register"}

C18_ProfileUpsertedBeforeReturn ==
    (gwLast.op \in AuthOps /\ gwLast.outcome = "returned")
        => /\ (gwLast.user # "none" /\ gwLast.error = "")
                => /\ gwLast.upsert = "done"
                   /\ \E p \in osot_profiles :
                        /\ p.id = gwLast.user
                        /\ gwLast.op = "register" => p.role = gwLast.role
           /\ gwLast.user = "none" => gwLast.upsert = "none"

(***************************************************************************)
(* C19.  shareData(targetUserId, {inventory, orders}) copies: when it has  *)
(* completed, every row the caller owned is still in its table as it was,  *)
(* a table of a kind not selected is unchanged, and in a table of a        *)
(* selected kind the new rows are exactly one per row of the caller, each  *)
(* owned by targetUserId, under a primary key that was not in use, with    *)
(* the attributes of its source.                                           *)
(***************************************************************************)
\* the new rows are the copies, one for one, of rows
CopiedOnce(rows, new, before, targetUserId) ==
    /\ \A n \in new : n.user_id = targetUserId /\ \A r \in before : r.id # n.id
    /\ \E f \in [rows -> new] :
         /\ \A r1, r2 \in rows : f[r1] = f[r2] => r1 = r2
         /\ \A n \in new : \E r \in rows : f[r] = n
         /\ \A r \in rows : f[r].v = r.v

Duplicated(before, after, selected, targetUserId) ==
    /\ \A r \in OwnedBy(before, session) : r \in after
    /\ before \subseteq after
    /\ IF selected
       THEN CopiedOnce(OwnedBy(before, session), after \ before, before, targetUserId)
       ELSE after = before

C19_ShareDataDuplicates ==
    [][\A targetUserId \in Users : \A inv \in BOOLEAN : \A ord \in BOOLEAN :
         (session # "none" /\ gw_shareData(targetUserId, inv, ord))
             => /\ Duplicated(osot_inventory, osot_inventory', inv, targetUserId)
                /\ Duplicated(osot_orders, osot_orders', ord, targetUserId)]_vars

(***************************************************************************)
(* C21.  The status select keeps the implied unit cost of an order         *)
(* (settledAmount - profit): when the status becomes 'Settled' and the     *)
(* prompt is answered with an amount a, the profit written is              *)
(* a - (old settledAmount - old profit); a change that leaves              *)
(* settledAmount alone leaves profit alone; and the in-memory order and    *)
(* the order sent to the gateway carry the same status, settledAmount and  *)
(* profit.                                                                 *)
(***************************************************************************)
\* the prompt was answered with a number
Corrected(newStatus, promptVal) ==
    newStatus = "Settled" /\ promptVal # "null" /\ parseFloat(promptVal).t # "nan"

CourierReset(o) ==
    o.returnType = "Courier"
        => (OrZero(Number(o.lossAmount)) = Num(0) /\ o.claimStatus = "None")

C22_CourierCarriesNoClaim ==
    /\ \A i \in 1..Len(orders) : CourierReset(orders[i])
    /\ CourierReset(returnModalOrder)

(***************************************************************************)
(* C23.  Choosing Customer as the return type sets returnType to           *)
(* 'Customer', sets claimStatus to 'Pending' only when it was absent or    *)
(* 'None' and leaves any other claimStatus as it was, and leaves           *)
(* lossAmount as it was: in the return modal and in the Returns tab.       *)
(***************************************************************************)
EntersCustomer(before, after) ==
    /\ after.returnType = "Customer"
    /\ after.claimStatus = IF before.claimStatus \in {"", "None"} THEN "Pending"
                           ELSE before.claimStatus
    /\ after.lossAmount = before.lossAmount

C23_CustomerKeepsClaim ==
    [][/\ App1_modalCustomer => EntersCustomer(returnModalOrder, returnModalOrder')
       /\ \A k \in 1..Len(filteredReturnedOrders(orders)) :
            P2_returnTypeOnChange(k, "Customer")
                => LET o == filteredReturnedOrders(orders)[k]
                   IN  /\ EntersCustomer(o, Find(orders', o.id))
                       /\ EntersCustomer(o, ordCalls'[Len(ordCalls')].order)]_vars

(***************************************************************************)
(* C24.  When the status of an order that is not yet Returned and has no   *)
(* return fields is changed to 'Returned', the return modal opens with     *)
(* returnType null (Unclassified); the modal is what Confirm & Update      *)
(* persists, so returnType stays null unless Courier or Customer is        *)
(* pressed.                                                                *)
(***************************************************************************)
\* the return modal opens on an order changed to 'Returned' for the first time
FirstReturn ==
    /\ returnModalOrder = NoOrder /\ returnModalOrder' # NoOrder
    /\ HasId(orders, returnModalOrder'.id)
    /\ LET o == Find(orders, returnModalOrder'.id)
       IN  o.status # "Returned" /\ o.returnType = "" /\ o.claimStatus = ""

C24_FirstReturnUnclassified ==
    [][FirstReturn => returnModalOrder'.returnType = ""]_vars

(***************************************************************************)
(* Adding orders while other calls are in flight, and signing out          *)
(* (src/App.tsx:156-164, 558-564, 678-681, src/unnamed/part_001:136-147,   *)
(* src/unnamed/part_002:104-131, 416-427).  The four builds of the App are *)
(* told apart here, because addOrder differs between them.  The session    *)
(* starts with the stored orders loaded and ends with handleLogout.        *)
(***************************************************************************)
MaxSyncCalls == 2
MaxListed == 3

SyncBuilds == {"App1", "App2", "P1", "P2"}

\* the orders the OrderForm submits: the id is typed by the user
SyncOrderIds == {1, 8, 9}
SyncOrders ==
    {[Order("Pending", Num(120), Num(40), "", "", Undef, FALSE, Date_2024_01_15, "Fashion")
         EXCEPT !.id = id] : id \in SyncOrderIds}

InitSync ==
    /\ backend \in StoredOrderLists
    /\ orders = getOrders(backend)
    /\ isLoading = FALSE
    /\ statuses = INITIAL_STATUSES
    /\ inventory = <<>>
    /\ invForm = ClosedForm("part_000")
    /\ invCalls = <<>>
    /\ appBuild \in SyncBuilds
    /\ appUser = "A"
    /\ isSyncing = FALSE
    /\ returnModalOrder = NoOrder
    /\ ordCalls = <<>>
    /\ confirmed = "none"
    /\ InitGwIdle

\* the OrderForm is on screen for a signed-in user; it is not disabled
\* while a call is in flight
CanSubmit ==
    /\ appUser # "none"
    /\ Len(ordCalls) < MaxSyncCalls
    /\ Len(orders) + Len(ordCalls) < MaxListed

\* addOrder of App1, App2 and P1, up to its await
addOrder(order) ==
    /\ appBuild \in {"App1", "App2", "P1"}
    /\ isSyncing' = TRUE
    /\ ordCalls' = Append(ordCalls, OrdCall("save", order, "addOrder", FALSE))
    /\ UNCHANGED <<orders, isLoading, returnModalOrder, backend, confirmed>>
    /\ UnchangedRest

\* P1 addOrder past its second await: setInventory(updatedInv) with the
\* inventory the store holds, which no step of this specification changes,
\* or the rejection of getInventory; then the finally block
getInventoryReturns(k) ==
    LET c == ordCalls[k]
    IN /\ c.kind = "getInventory"
       /\ ordCalls' = RemoveAt(ordCalls, k)
       /\ isSyncing' = FALSE
       /\ UNCHANGED <<orders, isLoading, returnModalOrder, backend, confirmed>>
    /\ UnchangedRest

\* handleLogout of App2 and P2, past await dbService.logout()
handleLogout ==
    /\ appBuild \in {"App2", "P2"}
    /\ appUser # "none"
    /\ appUser' = "none"
    /\ orders' = <<>>
    /\ inventory' = <<>>
    /\ UNCHANGED <<isLoading, returnModalOrder, ordCalls, backend, confirmed, isSyncing>>
    /\ UNCHANGED <<statuses, invForm, invCalls, appBuild>>
    /\ UnchangedGw

NextSync ==
    \/ CanSubmit /\ \E order \in SyncOrders : addOrder(order)
    \/ CanSubmit /\ \E o \in SyncOrders : P2_onAddOrder(o)
    \/ \E k \in 1..Len(ordCalls) : saveOrderReturns(k, TRUE)
    \/ \E k \in 1..Len(ordCalls) : saveOrderReturns(k, FALSE)
    \/ \E k \in 1..Len(ordCalls) : saveOrderRejected(k)
    \/ \E k \in 1..Len(ordCalls) : getInventoryReturns(k)
    \/ \E k \in 1..Len(ordCalls) : getOrdersResolved(k)
    \/ \E k \in 1..Len(ordCalls) : getOrdersRejected(k)
    \/ handleLogout

SpecSync == InitSync /\ [][NextSync]_vars

(***************************************************************************)
(* C25.  The ids of the orders in the in-memory list are pairwise distinct *)
(* in every reachable state, and no step other than a delete (or the       *)
(* clearing of the list at sign-out) drops from the list an order that the *)
(* store holds: not an add of an id that is already listed, nor its        *)
(* rollback, nor a reload.                                                 *)
(***************************************************************************)
DistinctIds(os) == \A i, j \in 1..Len(os) : i # j => os[i].id # os[j].id

\* the listed orders that the store holds are still listed
PersistedKept(before, after, rows) ==
    \A i \in 1..Len(before) : HasId(rows, before[i].id) => HasId(after, before[i].id)

C25_OrderIdsDistinct ==
    [][/\ DistinctIds(orders')
       /\ appUser' # "none" => PersistedKept(orders, orders', backend)]_vars

(***************************************************************************)
(* The inline edits of the P2 Returns tab (src/unnamed/part_002:540-640)   *)
(* on one loaded Returned order, with up to MaxSyncCalls updateOrder calls *)
(* in flight.  Every call succeeds; the store applies the updates in the   *)
(* order in which they reach it, which need not be the order of the edits. *)
(* The controls are not disabled while a call is in flight.                *)
(***************************************************************************)
\* the options of the claimStatus select
ClaimSelectOptions == {"None", "Pending", "Approved"}

InitEdits ==
    /\ backend \in {<<[row EXCEPT !.id = 1]>> : row \in {r \in StoredRows : r.status = "Returned"}}
    /\ orders = getOrders(backend)
    /\ isLoading = FALSE
    /\ statuses = INITIAL_STATUSES
    /\ inventory = <<>>
    /\ invForm = ClosedForm("part_000")
    /\ invCalls = <<>>
    /\ appBuild = "P2"
    /\ appUser = "A"
    /\ isSyncing = FALSE
    /\ returnModalOrder = NoOrder
    /\ ordCalls = <<>>
    /\ confirmed = "none"
    /\ InitGwIdle

NextEdits ==
    \/ /\ Len(ordCalls) < MaxSyncCalls
       /\ \E k \in 1..Len(orders) :
              \/ \E val \in {"Courier", "Customer"} :
                     P2_inlineEdit(k, LAMBDA item : [item EXCEPT !.returnType = val],
                                   "P2_returnType")
              \/ \E val \in LossInputs : P2_lossAmountOnChange(k, val)
              \/ \E val \in BOOLEAN : P2_bankSettledOnChange(k, val)
              \/ \E val \in ClaimSelectOptions : P2_claimStatusOnChange(k, val)
    \/ \E k \in 1..Len(ordCalls) : updateOrderResolved(k)

SpecEdits == InitEdits /\ [][NextEdits]_vars

(***************************************************************************)
(* C26.  In the Returns tab, when every updateOrder call of the inline     *)
(* edits has completed successfully and none is in flight, the row the     *)
(* store holds for an order equals the in-memory order in the edited       *)
(* fields, also when a second edit was made while the first was in flight  *)
(* and the updates were applied in either order.                           *)
(***************************************************************************)
InlineFields(o) == <<o.returnType, o.lossAmount, o.bankSettled, o.claimStatus>>

C26_InlineEditsReachStore ==
    ordCalls = <<>> =>
        \A i \in 1..Len(orders) : \A j \in 1..Len(backend) :
            orders[i].id = backend[j].id => InlineFields(orders[i]) = InlineFields(backend[j])

(***************************************************************************)
(* C27.  Whenever no user is logged in, the in-memory orders and inventory *)
(* lists are empty: handleLogout clears both and no call that was in       *)
(* flight at the logout fills them again when it returns.                  *)
(***************************************************************************)
C27_SignedOutListsEmpty ==
    appUser = "none" => (orders = <<>> /\ inventory = <<>>)

(***************************************************************************)
(* C28.  isSyncing is true exactly while at least one gateway mutation     *)
(* started by a handler that sets it is in flight: when two such           *)
(* operations overlap, the completion of the first does not clear the flag *)
(* while the second is pending, and after the last one the flag is false.  *)
(***************************************************************************)
\* the handlers that run between setIsSyncing(true) and the finally block
SyncingHandlers == {"addOrder", "status", "returnSubmit", "delete"}

MutationInFlight == \E k \in 1..Len(ordCalls) : ordCalls[k].handler \in SyncingHandlers

C28_SyncingWhileInFlight ==
    appBuild \in {"App1", "App2"} => (isSyncing <=> MutationInFlight)

(***************************************************************************)
(* C29.  When add operations overlap and their saves succeed, each         *)
(* completion leaves in the in-memory list the record it added together    *)
(* with every record the list held before it: the second completion does   *)
(* not overwrite the first with a list computed from a stale snapshot.     *)
(***************************************************************************)
\* the step in which addOrder runs on after a save that inserted the row
AddCompletes(k) == saveOrderReturns(k, TRUE) /\ ordCalls[k].handler = "addOrder"

AllListed(before, after) == \A i \in 1..Len(before) : HasId(after, before[i].id)

C29_OverlappingAddsKeepBoth ==
    [][\A k \in 1..Len(ordCalls) :
           AddCompletes(k) =>
               /\ HasId(orders', ordCalls[k].order.id)
               /\ AllListed(orders, orders')]_vars

(***************************************************************************)
(* dbService.login and register of the first gateway build, request by     *)
(* request (src/services/dbService.ts:51-67): retryFetch runs a function   *)
(* that signs in and then awaits syncProfile, which runs its upsert inside *)
(* a retryFetch of its own (lines 81-98).  rf is the activation of the     *)
(* outer retryFetch, rfSync that of the one inside syncProfile; rf.invoked *)
(* counts the sign-in requests, gwLast.upserts the upsert requests of the  *)
(* whole call.                                                             *)
(***************************************************************************)
\* retryFetch(fn) with the default arguments, fn called and awaited
DefaultActivation ==
    [pc |-> "fn", retries |-> DefaultRetries, delay |-> DefaultDelay,
     retries0 |-> DefaultRetries, delay0 |-> DefaultDelay,
     invoked |-> 1, waited |-> <<>>, errors |-> <<>>, error |-> NoError]

LoginCall(op, role, upserts) == [op |-> op, role |-> role, upserts |-> upserts]

InitLogin ==
    /\ InitAppIdle
    /\ gwBuild = "dbService1"
    /\ session = "none"
    /\ osot_orders = {}
    /\ osot_inventory = {}
    /\ osot_profiles = {}
    /\ gwLast = LoginCall("none", "omitted", 0)
    /\ rf = IdleRetry
    /\ rfSync = IdleRetry

UnchangedStore == UNCHANGED <<gwBuild, osot_orders, osot_inventory>>

\* the upsert of syncProfile is awaited
SyncRunning == rfSync.pc \in {"fn", "timeout"}

\* login(email, password) / register(email, password, role): retryFetch is
\* invoked and its function sends the sign-in (sign-up) request
login_call ==
    /\ rf.pc = "idle"
    /\ rf' = DefaultActivation
    /\ \/ gwLast' = LoginCall("login", "omitted", 0)
       \/ \E role \in Roles : gwLast' = LoginCall("register", role, 0)
    /\ UNCHANGED <<rfSync, session, osot_profiles>>
    /\ UnchangedStore /\ UnchangedApp

\* the sign-in request returns { data, error }: with a user, syncProfile is
\* called and sends its first upsert; without one the function returns
signInReturns ==
    /\ rf.pc = "fn" /\ ~SyncRunning
    /\ \/ /\ session' = "A"
          /\ rfSync' = DefaultActivation
          /\ gwLast' = [gwLast EXCEPT !.upserts = @ + 1]
          /\ UNCHANGED rf
       \/ /\ rf' = [rf EXCEPT !.pc = "returned"]
          /\ UNCHANGED <<rfSync, session, gwLast>>
    /\ UNCHANGED osot_profiles
    /\ UnchangedStore /\ UnchangedApp

\* the upsert returns without error: syncProfile resolves and the function
\* of login returns { user, error }
upsertResolves ==
    /\ rf.pc = "fn" /\ rfSync.pc = "fn"
    /\ osot_profiles' = Upsert(osot_profiles, session, gwLast.role)
    /\ rfSync' = [rfSync EXCEPT !.pc = "returned"]
    /\ rf' = [rf EXCEPT !.pc = "returned"]
    /\ UNCHANGED <<session, gwLast>>
    /\ UnchangedStore /\ UnchangedApp

\* if (error) throw error: the catch of the inner retryFetch starts its
\* timeout or rethrows; what it rethrows leaves syncProfile and the function
\* of login and reaches the catch of the outer retryFetch
upsertThrows ==
    /\ rf.pc = "fn" /\ rfSync.pc = "fn"
    /\ \E error \in FnErrors :
           IF rfSync.retries > 0 /\ IsRetried(error)
           THEN /\ rfSync' = [rfSync EXCEPT !.errors = Append(@, error), !.pc = "timeout"]
                /\ UNCHANGED rf
           ELSE /\ rfSync' = [rfSync EXCEPT !.errors = Append(@, error), !.pc = "thrown",
                                            !.error = error]
                /\ IF rf.retries > 0 /\ IsRetried(error)
                   THEN rf' = [rf EXCEPT !.errors = Append(@, error), !.pc = "timeout"]
                   ELSE rf' = [rf EXCEPT !.errors = Append(@, error), !.pc = "thrown",
                                         !.error = error]
    /\ UNCHANGED <<session, osot_profiles, gwLast>>
    /\ UnchangedStore /\ UnchangedApp

\* the timeout of the inner retryFetch elapses: the upsert is sent again
syncTimeoutElapses ==
    /\ rfSync.pc = "timeout"
    /\ rfSync' = [rfSync EXCEPT !.pc = "fn", !.waited = Append(@, rfSync.delay),
                                !.retries = rfSync.retries - 1,
                                !.delay = NextDelay(rfSync.delay), !.invoked = @ + 1]
    /\ gwLast' = [gwLast EXCEPT !.upserts = @ + 1]
    /\ UNCHANGED <<rf, session, osot_profiles>>
    /\ UnchangedStore /\ UnchangedApp

NextLogin ==
    \/ login_call
    \/ signInReturns
    \/ upsertResolves
    \/ upsertThrows
    \/ syncTimeoutElapses
    \/ timeoutElapses

SpecLogin == InitLogin /\ [][NextLogin]_vars

(***************************************************************************)
(* C30.  One call of login or register sends at most 4 sign-in requests    *)
(* and at most 4 profile upsert requests in total, also when every upsert  *)
(* fails with 'Failed to fetch'; and when the last upsert has failed for   *)
(* good with that error, the call ends by throwing it.                     *)
(***************************************************************************)
RequestBound == DefaultRetries + 1

\* every sign-in was followed by a syncProfile that threw, the last one
\* 'Failed to fetch'
LastUpsertFailed ==
    /\ Len(rf.errors) = rf.invoked
    /\ rfSync.pc = "thrown" /\ rfSync.error = FailedToFetch

C30_NestedRetriesBounded ==
    /\ rf.invoked <= RequestBound
    /\ gwLast.upserts <= RequestBound
    /\ (LastUpsertFailed /\ rf.pc \in {"returned", "thrown"})
           => (rf.pc = "thrown" /\ rf.error = FailedToFetch)

====
